---- MODULE Spec2Model ----
(***************************************************************************)
(* Process-agent collector (cmd/process-agent/collector.go): the check     *)
(* schedulers, the weighted result queues, the dispatchers that submit     *)
(* payloads to the forwarders, the real-time controller (updateRTStatus)   *)
(* and the orchestration of startup and shutdown in Collector.run.         *)
(***************************************************************************)
EXTENDS Integers, Sequences, FiniteSets, TLC

(***************************************************************************)
(* Bounds of the model.                                                    *)
(***************************************************************************)
\* runs of one check that the model follows (the run counter is unbounded in the code)
MaxRuns == 1
\* messages returned by one check run
MaxMsgs == 1
\* largest encoded body, in bytes
MaxBody == 1
\* backend domains answering one submission
MaxDomains == 2
\* item and byte limits of the five queues (process_config.queue_size,
\* rt_queue_size, process_queue_bytes, orchestrator pod_queue_bytes)
QueueSize == 1
QueueBytes == 1
\* limits of the stand-alone weighted queue and of the items added to it
MaxM == 3
MaxW == 4
MaxItemWeight == 5

(***************************************************************************)
(* Names.                                                                  *)
(***************************************************************************)
ProcessName == "process"
ProcessRTName == "rtprocess"
ContainerName == "container"
RTContainerName == "rtcontainer"
ConnectionsName == "connections"
PodCheckName == "pod"
ProcessDiscoveryName == "process_discovery"
ProcessEventsName == "process_events"
\* the name of a check that consumePayloads has no case for
UnknownCheckName == "custom"

\* the five queues of the Collector, in the order run stops them
QueueOrder == <<"processResults", "rtProcessResults", "connectionsResults",
                "podResults", "eventResults">>
QueueNames == {QueueOrder[i] : i \in 1..Len(QueueOrder)}

\* the forwarder consuming each queue
ForwarderOf(q) ==
    CASE q = "processResults" -> "processForwarder"
      [] q = "rtProcessResults" -> "rtProcessForwarder"
      [] q = "connectionsResults" -> "connectionsForwarder"
      [] q = "podResults" -> "podForwarder"
      [] OTHER -> "eventForwarder"

Forwarders == {ForwarderOf(q) : q \in QueueNames}

\* Check.RealTime(): true for a check that is itself a real-time check
RealTime(name) == name \in {RTContainerName, ProcessRTName}

\* the check implements checks.CheckWithRealTime (RunWithOptions)
IsCheckWithRealTime(name) == name = ProcessName

\* cfg.CheckInterval(name), in seconds: the configured intervals
CheckInterval(name) == IF RealTime(name) THEN 2 ELSE 10

\* realTimeInterval at construction, and the fallback of updateRTStatus
DefaultRTInterval == 2

VARIABLES
    enabledChecks,      \* l.enabledChecks: sequence of check names
    runRealTime,        \* l.runRealTime
    dropCheckPayloads,  \* l.dropCheckPayloads
    manifestCollection, \* l.cfg.Orchestrator.IsManifestCollectionEnabled
    runLimit,           \* runs of one check that the model follows
    realTimeEnabled,    \* l.realTimeEnabled (atomic)
    realTimeInterval,   \* l.realTimeInterval, seconds (plain field)
    groupID,            \* l.groupID (atomic int32)
    runCounters,        \* l.runCounters: check name -> runs so far
    exitClosed,         \* the exit channel has been closed
    queues,             \* queue name -> [items, stopped, maxSize, maxWeight]
    spc,                \* scheduler i: position in basicRunner
    ticker,             \* scheduler i: period of its ticker, 0 before it is created
    pending,            \* scheduler i: results its run still has to Add
    gid,                \* scheduler i: group id of the run in progress, 0 outside a run
    logged,             \* check name -> run numbers for which the duration was logged
    erred,              \* history: the last run scheduler i completed returned an error
    dpc,                \* dispatcher of a queue: position in consumePayloads
    dres,               \* dispatcher: the polled checkResult
    didx,               \* dispatcher: index of the payload being handled
    dcur,               \* updateRTStatus: curEnabled
    dshould,            \* updateRTStatus: shouldEnableRT after the loop over the statuses
    dmax,               \* updateRTStatus: maxInterval after the loop, seconds
    dsends,             \* dispatcher: sends of the broadcast still to do
    dval,               \* dispatcher: value of the pending send
    runPc,              \* Collector.run: position
    runIdx,             \* Collector.run: loop index over enabledChecks
    stopIdx,            \* queue-stopping goroutine: queues stopped so far
    hbDone,             \* heartbeat goroutine has returned
    fwd,                \* forwarder -> "new" | "started" | "stopped"
    cleanups,           \* check i -> number of Cleanup calls
    got,                \* history: dispatcher -> scheduler -> updates of its broadcast received
    wq,                 \* the stand-alone weighted queue of SpecQueue
    wlast,              \* history: the last call on wq, its result, and wq before it
    rd,                 \* a call of readResponseStatuses: its stream and its statuses
    nrc,                \* scheduler -> its calls of nextRunCounter, and the call in progress
    mr,                 \* a call of messagesToResults: its messages and what it Adds
    conf,               \* the configured queue limits NewCollectorWithChecks reads
    ccc,                \* the CCCache: its fields, its refresh loop and its callers
    dk                  \* the docker workloadmeta collector and the subscribers of dockerUtil

cfgVars == <<enabledChecks, runRealTime, dropCheckPayloads, manifestCollection, runLimit>>
rtVars == <<realTimeEnabled, realTimeInterval>>
schedVars == <<spc, ticker, pending, gid, logged, erred>>
dispVars == <<dpc, dres, didx, dcur, dshould, dmax, dsends, dval>>
runVars == <<runPc, runIdx, fwd, cleanups>>
vars == <<cfgVars, rtVars, groupID, runCounters, exitClosed, queues, schedVars,
          dispVars, runVars, stopIdx, hbDone, got, wq, wlast, rd, nrc, mr, conf, ccc, dk>>

(***************************************************************************)
(* Arithmetic helpers.                                                     *)
(***************************************************************************)
Max(a, b) == IF a > b THEN a ELSE b

\* atomic.Int32.Inc: the increment wraps from 2^31 - 1 to -2^31
MaxInt32 == 2147483647
MinInt32 == -2147483647 - 1
Int32Inc_Saturates(n) == IF n = MaxInt32 THEN MaxInt32 ELSE n + 1
Int32Inc(n) == IF n = MaxInt32 THEN MinInt32 ELSE n + 1

RECURSIVE SumWeights(_)
SumWeights(items) ==
    IF items = <<>> THEN 0 ELSE Head(items).sizeInBytes + SumWeights(Tail(items))

(***************************************************************************)
(* The weighted queue (api.WeightedQueue).                                 *)
(***************************************************************************)
NewWeightedQueue(maxSize, maxWeight) ==
    [items |-> <<>>, stopped |-> FALSE, maxSize |-> maxSize, maxWeight |-> maxWeight]

\* checkResult.Weight
Weight(item) == item.sizeInBytes

QLen(q) == Len(q.items)
QWeight(q) == SumWeights(q.items)

\* the item fits behind `items` within both limits
Fits(q, items, item) ==
    /\ Len(items) + 1 <= q.maxSize
    /\ SumWeights(items) + Weight(item) <= q.maxWeight

\* a variant that empties the queue as soon as the item does not fit
Evict_Everything(q, items, item) ==
    IF Fits(q, items, item) THEN items ELSE <<>>

\* evict from the front, oldest first, until the item fits or nothing is left
RECURSIVE Evict(_, _, _)
Evict(q, items, item) ==
    IF items = <<>> \/ Fits(q, items, item) THEN items
    ELSE Evict(q, Tail(items), item)

\* a variant of Add that keeps what is queued and appends without evicting
QAdd_NoEvict(q, item) ==
    IF q.stopped THEN q ELSE [q EXCEPT !.items = Append(q.items, item)]

\* a variant of the guard that makes the caller wait for room in the queue
QAddReady_WaitsForRoom(q) == Len(q.items) < q.maxSize

\* Add can proceed: it never blocks the caller
QAddReady(q) == TRUE

\* a variant of Add that does not look at the stopped mark
QAdd_IgnoresStop(q, item) ==
    [q EXCEPT !.items = Append(Evict(q, q.items, item), item)]

\* Add: evicts until the item fits; a no-op after Stop
QAdd(q, item) ==
    IF q.stopped THEN q
    ELSE [q EXCEPT !.items = Append(Evict(q, q.items, item), item)]

\* Poll can return: an item is there, or the queue is stopped
QPollReady(q) == q.stopped \/ q.items # <<>>

\* a variant of Poll that still hands out what a stopped queue holds
QPollOk_DrainsAfterStop(q) == q.items # <<>>

\* Poll returns an item: never after Stop
QPollOk(q) == ~q.stopped /\ q.items # <<>>
\* a variant of Poll that leaves the item it returns in the queue
QPollRest_LeavesItem(q) == q

\* the queue after a Poll that returned its oldest item
QPollRest(q) == [q EXCEPT !.items = Tail(q.items)]

QStop(q) == [q EXCEPT !.stopped = TRUE]

(***************************************************************************)
(* Check runs and the construction of results.                             *)
(***************************************************************************)
NumChecks == Len(enabledChecks)
Scheds == 1..NumChecks
NameOf(i) == enabledChecks[i]

\* time.NewTicker panics when the period is not positive
NewTickerPanics(d) == d <= 0

\* a goroutine has panicked: the process has terminated, no goroutine takes
\* another step
Panicked == \E i \in Scheds : spc[i] = "panic"

\* cfg.Orchestrator.OrchestrationCollectionEnabled: on exactly when the pod check is enabled
OrchestrationCollectionEnabled == \E i \in Scheds : NameOf(i) = PodCheckName

\* a message of a check's output: whether EncodePayload succeeds, the length of
\* the encoded body, and whether it is a *model.CollectorManifest
Messages(name) ==
    {[enc |-> FALSE, size |-> 0, manifest |-> FALSE]}
    \cup {[enc |-> TRUE, size |-> n, manifest |-> m] :
             n \in 1..MaxBody,
             m \in (IF name = PodCheckName THEN BOOLEAN ELSE {FALSE})}

MessageLists(name) ==
    UNION {[1..n -> Messages(name)] : n \in 0..MaxMsgs}

\* a variant of the loop that gives up at the first message that does not encode
RECURSIVE EncodeAll_StopsAtFailure(_)
EncodeAll_StopsAtFailure(messages) ==
    IF messages = <<>> THEN <<>>
    ELSE LET m == Head(messages)
         IN IF ~m.enc THEN <<>>
            ELSE <<[size |-> m.size,
                    zstd |-> OrchestrationCollectionEnabled /\ m.manifest]>>
                 \o EncodeAll_StopsAtFailure(Tail(messages))

\* the loop of messagesToResults: one payload per message that encodes
RECURSIVE EncodeAll(_)
EncodeAll(messages) ==
    IF messages = <<>> THEN <<>>
    ELSE LET m == Head(messages)
             rest == EncodeAll(Tail(messages))
         IN IF ~m.enc THEN rest
            ELSE <<[size |-> m.size,
                    zstd |-> OrchestrationCollectionEnabled /\ m.manifest]>> \o rest

\* a variant that counts the payloads instead of their bytes
SumSizes_CountsPayloads(payloads) == Len(payloads)

\* sizeInBytes += len(body), over the payloads of a result
RECURSIVE SumSizes(_)
SumSizes(payloads) ==
    IF payloads = <<>> THEN 0 ELSE Head(payloads).size + SumSizes(Tail(payloads))

NoResult == [name |-> "", payloads |-> <<>>, sizeInBytes |-> 0]

\* messagesToResults: the results it Adds (none for an empty message list)
messagesToResults(name, messages) ==
    IF Len(messages) = 0 THEN <<>>
    ELSE LET payloads == EncodeAll(messages)
         IN <<[name |-> name, payloads |-> payloads, sizeInBytes |-> SumSizes(payloads)]>>

\* handlePodChecks: first half always, second half when manifests are collected
handlePodChecks(name, messages) ==
    LET half == Len(messages) \div 2
    IN messagesToResults(name, SubSeq(messages, 1, half))
       \o (IF manifestCollection
           THEN messagesToResults(name, SubSeq(messages, half + 1, Len(messages)))
           ELSE <<>>)

\* the Adds of one successful runCheck
RunResults(name, messages) ==
    IF name = PodCheckName THEN handlePodChecks(name, messages)
    ELSE messagesToResults(name, messages)

\* a variant that hands every check the main process queue
resultsQueueForCheck_AlwaysProcess(name) == "processResults"

\* resultsQueueForCheck: the queue that takes the results of a check name
resultsQueueForCheck(name) ==
    CASE name = PodCheckName -> "podResults"
      [] name \in {ProcessRTName, RTContainerName} -> "rtProcessResults"
      [] name = ConnectionsName -> "connectionsResults"
      [] name = ProcessEventsName -> "eventResults"
      [] OTHER -> "processResults"

\* runnerForCheck: which runner a check gets
runnerForCheck(name) ==
    IF ~runRealTime \/ ~IsCheckWithRealTime(name) THEN "basic" ELSE "withRealTime"

\* the outcomes of building the runner: basicRunner always returns a runner,
\* checks.NewRunnerWithRealTime returns a runner or an error
RunnerBuilds(name) == IF runnerForCheck(name) = "basic" THEN {TRUE} ELSE BOOLEAN

\* withRealTime.RealTimeName()
RealTimeName(name) == ProcessRTName

\* the runner replaces its ticker on an interval update: a basic runner only
\* for a real-time check, the runner with real time always
TakesInterval(name) == RealTime(name) \/ runnerForCheck(name) = "withRealTime"

\* period of the ticker a runner creates: the check interval for a basic
\* runner, RtInterval for the runner with real time
TickerPeriod(name) ==
    IF runnerForCheck(name) = "basic" THEN CheckInterval(name)
    ELSE CheckInterval(RealTimeName(name))

(***************************************************************************)
(* The scheduler of a check (basicRunner).                                 *)
(*   spc: "idle" (goroutine not started), "start", "running" (inside       *)
(*   c.Run), "adding" (inside results.Add), "waiting" (at the select),     *)
(*   "done" (returned), "panic" (panicked in time.NewTicker).              *)
(***************************************************************************)
\* a variant of logCheckDuration that logs every run
logCheckDuration_EveryRun(runCounter) == TRUE

\* logCheckDuration: whether a line is logged for the run with this counter
logCheckDuration(runCounter) ==
    \/ runCounter < 5
    \/ runCounter = 5
    \/ runCounter % 20 = 0

\* runCheck up to the call of c.Run: nextRunCounter and nextGroupID
BeginRun(i) ==
    /\ runCounters' = [runCounters EXCEPT ![NameOf(i)] = @ + 1]
    /\ groupID' = Int32Inc(groupID)
    /\ gid' = [gid EXCEPT ![i] = groupID']
    /\ spc' = [spc EXCEPT ![i] = "running"]

\* back to the select; the ticker is created after the priming run
ToWaiting(i) ==
    /\ spc' = [spc EXCEPT ![i] = "waiting"]
    /\ gid' = [gid EXCEPT ![i] = 0]
    /\ ticker' = [ticker EXCEPT ![i] = IF @ = 0 THEN TickerPeriod(NameOf(i)) ELSE @]

\* the end of a runCheck that had no error: logCheckDuration unless the check
\* is a real-time check
EndRun(i) ==
    /\ ToWaiting(i)
    /\ erred' = [erred EXCEPT ![i] = FALSE]
    /\ logged' = IF ~RealTime(NameOf(i)) /\ logCheckDuration(runCounters[NameOf(i)])
                 THEN [logged EXCEPT ![NameOf(i)] = @ \cup {runCounters[NameOf(i)]}]
                 ELSE logged

\* the end of a runCheckWithRealTime that had no error: the duration was logged
\* with the standard half
EndDualRun(i) ==
    /\ ToWaiting(i)
    /\ erred' = [erred EXCEPT ![i] = FALSE]
    /\ UNCHANGED logged

\* a variant of the entry that goes to the select without a priming run
SchedPrime_NoPrimingRun(i) ==
    /\ ~Panicked
    /\ spc[i] = "start"
    /\ ToWaiting(i)
    /\ UNCHANGED <<cfgVars, rtVars, groupID, runCounters, exitClosed, queues, pending,
                   logged, erred, dispVars, runVars, stopIdx, hbDone, got, wq, wlast, rd, nrc, mr, conf, ccc, dk>>

\* entry of the runner: the priming run unless the check is a real-time check
SchedPrime(i) ==
    /\ ~Panicked
    /\ spc[i] = "start"
    /\ runnerForCheck(NameOf(i)) = "basic"
    /\ IF ~RealTime(NameOf(i))
       THEN BeginRun(i) /\ UNCHANGED ticker
       ELSE ToWaiting(i) /\ UNCHANGED <<runCounters, groupID>>
    /\ UNCHANGED <<cfgVars, rtVars, exitClosed, queues, pending, logged, erred, dispVars,
                   runVars, stopIdx, hbDone, got, wq, wlast, rd, nrc, mr, conf, ccc, dk>>

\* a variant of the test that runs every check on every tick
ShouldRunOnTick_Always(name) == TRUE

\* the test after case <-ticker.C: the flag is loaded at the tick
ShouldRunOnTick(name) ==
    LET rtEnabled == runRealTime /\ realTimeEnabled
    IN ~RealTime(name) \/ rtEnabled

\* case <-ticker.C
SchedTick(i) ==
    /\ ~Panicked
    /\ spc[i] = "waiting"
    /\ runnerForCheck(NameOf(i)) = "basic"
    /\ runCounters[NameOf(i)] < runLimit
    /\ IF ShouldRunOnTick(NameOf(i))
       THEN BeginRun(i)
       ELSE UNCHANGED <<runCounters, groupID, spc, gid>>
    /\ UNCHANGED <<cfgVars, rtVars, exitClosed, queues, ticker, pending, logged, erred,
                   dispVars, runVars, stopIdx, hbDone, got, wq, wlast, rd, nrc, mr, conf, ccc, dk>>

\* a variant in which an error of the check ends the runner
SchedRunError_EndsRunner(i) ==
    /\ ~Panicked
    /\ spc[i] = "running"
    /\ spc' = [spc EXCEPT ![i] = "done"]
    /\ erred' = [erred EXCEPT ![i] = TRUE]
    /\ UNCHANGED <<cfgVars, rtVars, groupID, runCounters, exitClosed, queues, ticker,
                   pending, gid, logged, dispVars, runVars, stopIdx, hbDone, got, wq, wlast, rd, nrc, mr, conf, ccc, dk>>

\* c.Run returns an error: the run is skipped
SchedRunError(i) ==
    /\ ~Panicked
    /\ spc[i] = "running"
    /\ ToWaiting(i)
    /\ erred' = [erred EXCEPT ![i] = TRUE]
    /\ UNCHANGED <<cfgVars, rtVars, groupID, runCounters, exitClosed, queues, pending,
                   logged, dispVars, runVars, stopIdx, hbDone, got, wq, wlast, rd, nrc, mr, conf, ccc, dk>>

\* c.Run returns messages: the results to Add are built
SchedRunReturn(i) ==
    /\ ~Panicked
    /\ spc[i] = "running"
    /\ \E rs \in {RunResults(NameOf(i), messages) : messages \in MessageLists(NameOf(i))} :
         IF rs = <<>>
         THEN EndRun(i) /\ UNCHANGED pending
         ELSE /\ spc' = [spc EXCEPT ![i] = "adding"]
              /\ pending' = [pending EXCEPT ![i] = rs]
              /\ UNCHANGED <<ticker, gid, logged, erred>>
    /\ UNCHANGED <<cfgVars, rtVars, groupID, runCounters, exitClosed, queues,
                   dispVars, runVars, stopIdx, hbDone, got, wq, wlast, rd, nrc, mr, conf, ccc, dk>>

\* results.Add(result), then the next Add of the run or back to the select
SchedAdd(i) ==
    /\ ~Panicked
    /\ spc[i] = "adding"
    /\ LET q == resultsQueueForCheck(Head(pending[i]).name)
       IN /\ QAddReady(queues[q])
          /\ queues' = [queues EXCEPT ![q] = QAdd(@, Head(pending[i]))]
    /\ pending' = [pending EXCEPT ![i] = Tail(@)]
    /\ IF Tail(pending[i]) = <<>>
       THEN IF runnerForCheck(NameOf(i)) = "basic" THEN EndRun(i) ELSE EndDualRun(i)
       ELSE UNCHANGED <<spc, ticker, gid, logged, erred>>
    /\ UNCHANGED <<cfgVars, rtVars, groupID, runCounters, exitClosed,
                   dispVars, runVars, stopIdx, hbDone, got, wq, wlast, rd, nrc, mr, conf, ccc, dk>>

\* a variant in which the closing of exit also ends a runner that is in a run
SchedExit_InterruptsRun(i) ==
    /\ ~Panicked
    /\ spc[i] \in {"waiting", "running", "adding"}
    /\ exitClosed
    /\ spc' = [spc EXCEPT ![i] = "done"]
    /\ UNCHANGED <<cfgVars, rtVars, groupID, runCounters, exitClosed, queues, ticker,
                   pending, gid, logged, erred, dispVars, runVars, stopIdx, hbDone, got,
                   wq, wlast, rd, nrc, mr, conf, ccc, dk>>

\* case _, ok := <-exit with ok = false
SchedExit(i) ==
    /\ ~Panicked
    /\ spc[i] = "waiting"
    /\ exitClosed
    /\ spc' = [spc EXCEPT ![i] = "done"]
    /\ UNCHANGED <<cfgVars, rtVars, groupID, runCounters, exitClosed, queues, ticker,
                   pending, gid, logged, erred, dispVars, runVars, stopIdx, hbDone, got,
                   wq, wlast, rd, nrc, mr, conf, ccc, dk>>

(***************************************************************************)
(* Backend responses and their decoding (readResponseStatuses).            *)
(***************************************************************************)
\* model.CollectorStatus records the backend may return
StatusRecords ==
    {[ActiveClients |-> 0, Interval |-> 5],
     [ActiveClients |-> 3, Interval |-> 10],
     [ActiveClients |-> 0, Interval |-> 0]}

SomeStatus == [ActiveClients |-> 3, Interval |-> 10]

\* a response body: undecodable, a message of another type, or a ResCollector
\* with an error message or a status
Bodies ==
    {[kind |-> "undecodable", Message |-> "", Status |-> SomeStatus],
     [kind |-> "other", Message |-> "", Status |-> SomeStatus],
     [kind |-> "res", Message |-> "error", Status |-> SomeStatus]}
    \cup {[kind |-> "res", Message |-> "", Status |-> st] : st \in StatusRecords}

GoodBody == [kind |-> "res", Message |-> "", Status |-> SomeStatus]

\* forwarder.Response values: a transport error, rejected or informational
\* status codes with a well-formed body, and 200 with every body
Responses ==
    {[Err |-> TRUE, StatusCode |-> 0, Body |-> GoodBody],
     [Err |-> FALSE, StatusCode |-> 500, Body |-> GoodBody],
     [Err |-> FALSE, StatusCode |-> 100, Body |-> GoodBody]}
    \cup {[Err |-> FALSE, StatusCode |-> 200, Body |-> b] : b \in Bodies}

ResponseLists == UNION {[1..n -> Responses] : n \in 0..MaxDomains}

ignoreResponseBody(checkName) == checkName \in {PodCheckName, ProcessEventsName}

\* the body of the loop `for response := range responses`: the status the
\* response adds to statuses, if any
ResponseStatus(checkName, r) ==
    CASE r.Err -> <<>>
      [] r.StatusCode >= 300 -> <<>>
      [] ignoreResponseBody(checkName) -> <<>>
      [] r.Body.kind = "undecodable" -> <<>>
      [] r.Body.kind = "res" /\ Len(r.Body.Message) = 0 -> <<r.Body.Status>>
      [] OTHER -> <<>>

RECURSIVE readResponseStatuses(_, _)
readResponseStatuses(checkName, responses) ==
    IF responses = <<>> THEN <<>>
    ELSE ResponseStatus(checkName, Head(responses))
            \o readResponseStatuses(checkName, Tail(responses))

\* no call of nextRunCounter is followed
NoCounterCalls == <<>>

\* no CCCache is configured, and no docker collector is started
NoCache == <<>>
NoCollector == <<>>

\* no construction of a Collector is followed
NoConfig == [queueSize |-> 0, rtQueueSize |-> 0, queueBytes |-> 0, podQueueBytes |-> 0,
             built |-> FALSE]

\* no call of messagesToResults is followed
NoConversion == [name |-> "", messages |-> <<>>, results |-> <<>>, returned |-> FALSE]

\* no call of readResponseStatuses is followed
NoRead == [checkName |-> "", pending |-> <<>>, seen |-> <<>>, statuses |-> <<>>,
           returned |-> FALSE]

(***************************************************************************)
(* The dispatcher of a queue (consumePayloads).                            *)
(*   dpc: "idle" (not started), "poll", "payload", the positions inside    *)
(*   updateRTStatus ("rtLoad", "rtStore", "rtCmp", "rtWrite", "rtFallback",*)
(*   "rtSend", "rtRet"), "done".                                           *)
(***************************************************************************)
\* a variant whose loop never finds the name
shouldDropPayload_NeverMatches(check) == FALSE

shouldDropPayload(check) == check \in dropCheckPayloads

\* a variant whose default case submits to the process sink
SinkFor_DefaultsToProcess(name, payload) ==
    IF name = PodCheckName /\ payload.zstd THEN "SubmitOrchestratorManifests"
    ELSE "SubmitProcessChecks"

\* the switch on result.name: the Submit method used, "" when unsupported
SinkFor(name, payload) ==
    CASE name = ProcessName -> "SubmitProcessChecks"
      [] name = ProcessRTName -> "SubmitRTProcessChecks"
      [] name = ContainerName -> "SubmitContainerChecks"
      [] name = RTContainerName -> "SubmitRTContainerChecks"
      [] name = ConnectionsName -> "SubmitConnectionChecks"
      [] name = PodCheckName ->
            IF payload.zstd THEN "SubmitOrchestratorManifests"
            ELSE "SubmitOrchestratorChecks"
      [] name = ProcessDiscoveryName -> "SubmitProcessDiscoveryChecks"
      [] name = ProcessEventsName -> "SubmitProcessEventChecks"
      [] OTHER -> ""

\* a variant in which the process-discovery case leaves the flag alone
UpdatesRTStatus_DiscoveryKeepsFlag(name) ==
    IF name \in {PodCheckName, ProcessEventsName} THEN FALSE ELSE runRealTime

\* a variant in which the flag does not start from l.runRealTime
UpdatesRTStatus_IgnoresConfig(name) ==
    name \notin {PodCheckName, ProcessDiscoveryName, ProcessEventsName}

\* the updateRTStatus flag of consumePayloads after the switch
UpdatesRTStatus(name) ==
    IF name \in {PodCheckName, ProcessDiscoveryName, ProcessEventsName}
    THEN FALSE
    ELSE runRealTime

\* next payload of the result, or back to Poll
Advance(d) ==
    IF didx[d] < Len(dres[d].payloads)
    THEN /\ didx' = [didx EXCEPT ![d] = @ + 1]
         /\ dpc' = [dpc EXCEPT ![d] = "payload"]
         /\ UNCHANGED dres
    ELSE /\ didx' = [didx EXCEPT ![d] = 0]
         /\ dpc' = [dpc EXCEPT ![d] = "poll"]
         /\ dres' = [dres EXCEPT ![d] = NoResult]

\* results.Poll() returns
DispPoll(d) ==
    /\ ~Panicked
    /\ dpc[d] = "poll"
    /\ QPollReady(queues[d])
    /\ IF ~QPollOk(queues[d])
       THEN /\ dpc' = [dpc EXCEPT ![d] = "done"]
            /\ UNCHANGED <<queues, dres, didx>>
       ELSE LET item == Head(queues[d].items)
            IN /\ queues' = [queues EXCEPT ![d] = QPollRest(@)]
               /\ IF item.payloads = <<>>
                  THEN UNCHANGED <<dpc, dres, didx>>
                  ELSE /\ dpc' = [dpc EXCEPT ![d] = "payload"]
                       /\ dres' = [dres EXCEPT ![d] = item]
                       /\ didx' = [didx EXCEPT ![d] = 1]
    /\ UNCHANGED <<cfgVars, rtVars, groupID, runCounters, exitClosed, schedVars,
                   dcur, dshould, dmax, dsends, dval, runVars, stopIdx, hbDone, got, wq, wlast, rd, nrc, mr, conf, ccc, dk>>

\* the Submit method the dispatcher is inside of, "" when it is in none
SubmitCall(d) ==
    IF dpc[d] = "submit" THEN SinkFor(dres[d].name, dres[d].payloads[didx[d]]) ELSE ""

\* one iteration of the loop over result.payloads, up to the Submit call:
\* dropped, unsupported, Submit returns an error, or Submit returns a stream
DispSubmit(d) ==
    /\ ~Panicked
    /\ dpc[d] = "payload"
    /\ LET name == dres[d].name
           sink == SinkFor(name, dres[d].payloads[didx[d]])
       IN IF shouldDropPayload(name) \/ sink = ""
          THEN Advance(d)
          ELSE /\ dpc' = [dpc EXCEPT ![d] = "submit"]
               /\ UNCHANGED <<dres, didx>>
    /\ UNCHANGED <<cfgVars, rtVars, groupID, runCounters, exitClosed, queues, schedVars,
                   dcur, dshould, dmax, dsends, dval, runVars, stopIdx, hbDone, got, wq, wlast, rd, nrc, mr, conf, ccc, dk>>

\* Submit returns an error: the payload is skipped
DispSubmitError(d) ==
    /\ ~Panicked
    /\ dpc[d] = "submit"
    /\ Advance(d)
    /\ UNCHANGED <<cfgVars, rtVars, groupID, runCounters, exitClosed, queues, schedVars,
                   dcur, dshould, dmax, dsends, dval, runVars, stopIdx, hbDone, got, wq, wlast, rd, nrc, mr, conf, ccc, dk>>

(***************************************************************************)
(* The real-time controller (updateRTStatus), run by the dispatchers.      *)
(***************************************************************************)
RECURSIVE ShouldEnableRT(_)
ShouldEnableRT(statuses) ==
    IF statuses = <<>> THEN FALSE
    ELSE Head(statuses).ActiveClients > 0 \/ ShouldEnableRT(Tail(statuses))

\* maxInterval of the loop, in seconds: starts at 0
RECURSIVE MaxInterval(_)
MaxInterval(statuses) ==
    IF statuses = <<>> THEN 0
    ELSE Max(Head(statuses).Interval, MaxInterval(Tail(statuses)))

NoneGot == [i \in Scheds |-> 0]

\* a variant that calls updateRTStatus with an empty batch as well
CallsUpdateRTStatus_OnEmptyBatch(name, statuses) == UpdatesRTStatus(name)

\* `if statuses := ...; len(statuses) > 0 { if updateRTStatus {`
CallsUpdateRTStatus(name, statuses) == Len(statuses) > 0 /\ UpdatesRTStatus(name)

\* the response stream is read to its end (readResponseStatuses); with statuses
\* and the updateRTStatus flag, updateRTStatus is entered: the Load of the flag
\* and the loop over the statuses
DispResponsesWith(d, responses) ==
    /\ ~Panicked
    /\ dpc[d] = "submit"
    /\ LET statuses == readResponseStatuses(dres[d].name, responses)
       IN IF CallsUpdateRTStatus(dres[d].name, statuses)
          THEN /\ dcur' = [dcur EXCEPT ![d] = realTimeEnabled]
               /\ dshould' = [dshould EXCEPT ![d] = ShouldEnableRT(statuses)]
               /\ dmax' = [dmax EXCEPT ![d] = MaxInterval(statuses)]
               /\ dpc' = [dpc EXCEPT ![d] = "rtStore"]
               /\ UNCHANGED <<dres, didx>>
          ELSE Advance(d) /\ UNCHANGED <<dcur, dshould, dmax>>
    /\ UNCHANGED <<cfgVars, rtVars, groupID, runCounters, exitClosed, queues, schedVars,
                   dsends, dval, runVars, stopIdx, hbDone, got, wq, wlast, rd, nrc, mr, conf, ccc, dk>>

\* the Submit call returned a stream, on which any responses arrive
DispResponses(d) == \E responses \in ResponseLists : DispResponsesWith(d, responses)

\* a variant that enables real-time mode and never disables it
StoreEnabled_OnlyEnables(curEnabled, shouldEnableRT, flag) ==
    IF ~curEnabled /\ shouldEnableRT THEN TRUE ELSE flag

\* the flag after the if / else if on curEnabled and shouldEnableRT: a Store
\* when the two differ, no access otherwise
StoreEnabled(curEnabled, shouldEnableRT, flag) ==
    IF curEnabled /\ ~shouldEnableRT THEN FALSE
    ELSE IF ~curEnabled /\ shouldEnableRT THEN TRUE
    ELSE flag

\* the conditional Store of the flag
RTStore(d) ==
    /\ ~Panicked
    /\ dpc[d] = "rtStore"
    /\ realTimeEnabled' = StoreEnabled(dcur[d], dshould[d], realTimeEnabled)
    /\ dcur' = [dcur EXCEPT ![d] = FALSE]
    /\ dpc' = [dpc EXCEPT ![d] = "rtCmp"]
    /\ UNCHANGED <<cfgVars, realTimeInterval, groupID, runCounters, exitClosed, queues,
                   schedVars, dres, didx, dshould, dmax, dsends, dval, runVars, stopIdx,
                   hbDone, got, wq, wlast, rd, nrc, mr, conf, ccc, dk>>

\* if maxInterval != l.realTimeInterval
RTCmp(d) ==
    /\ ~Panicked
    /\ dpc[d] = "rtCmp"
    /\ dpc' = [dpc EXCEPT ![d] = IF dmax[d] # realTimeInterval THEN "rtWrite" ELSE "rtRet"]
    /\ UNCHANGED <<cfgVars, rtVars, groupID, runCounters, exitClosed, queues, schedVars,
                   dres, didx, dcur, dshould, dmax, dsends, dval, runVars, stopIdx,
                   hbDone, got, wq, wlast, rd, nrc, mr, conf, ccc, dk>>

\* l.realTimeInterval = maxInterval
RTWrite(d) ==
    /\ ~Panicked
    /\ dpc[d] = "rtWrite"
    /\ realTimeInterval' = dmax[d]
    /\ dpc' = [dpc EXCEPT ![d] = "rtFallback"]
    /\ UNCHANGED <<cfgVars, realTimeEnabled, groupID, runCounters, exitClosed, queues,
                   schedVars, dres, didx, dcur, dshould, dmax, dsends, dval, runVars,
                   stopIdx, hbDone, got, wq, wlast, rd, nrc, mr, conf, ccc, dk>>

\* the fallback to the default, then entry of the loop `for range l.enabledChecks`
\* with the value of the first send evaluated
RTFallback(d) ==
    /\ ~Panicked
    /\ dpc[d] = "rtFallback"
    /\ realTimeInterval' =
         IF realTimeInterval <= 0 THEN DefaultRTInterval ELSE realTimeInterval
    /\ IF NumChecks = 0
       THEN /\ dpc' = [dpc EXCEPT ![d] = "rtRet"]
            /\ UNCHANGED <<dsends, dval>>
       ELSE /\ dpc' = [dpc EXCEPT ![d] = "rtSend"]
            /\ dsends' = [dsends EXCEPT ![d] = NumChecks]
            /\ dval' = [dval EXCEPT ![d] = realTimeInterval']
    /\ UNCHANGED <<cfgVars, realTimeEnabled, groupID, runCounters, exitClosed, queues,
                   schedVars, dres, didx, dcur, dshould, dmax, runVars, stopIdx, hbDone,
                   got, wq, wlast, rd, nrc, mr, conf, ccc, dk>>

\* l.rtIntervalCh <- l.realTimeInterval meets case d := <-l.rtIntervalCh of
\* scheduler i: the channel is unbuffered, so both move together; the value
\* of the next send is evaluated. A real-time check replaces its ticker by
\* time.NewTicker(d), which panics when d is not positive
RTSend(d, i) ==
    /\ ~Panicked
    /\ dpc[d] = "rtSend"
    /\ spc[i] = "waiting"
    /\ IF RealTime(NameOf(i)) /\ NewTickerPanics(dval[d])
       THEN /\ spc' = [spc EXCEPT ![i] = "panic"]
            /\ UNCHANGED ticker
       ELSE /\ ticker' = [ticker EXCEPT ![i] = IF TakesInterval(NameOf(i)) THEN dval[d] ELSE @]
            /\ UNCHANGED spc
    /\ got' = [got EXCEPT ![d][i] = @ + 1]
    /\ dsends' = [dsends EXCEPT ![d] = @ - 1]
    /\ IF dsends[d] = 1
       THEN /\ dpc' = [dpc EXCEPT ![d] = "rtRet"]
            /\ dval' = [dval EXCEPT ![d] = 0]
       ELSE /\ dval' = [dval EXCEPT ![d] = realTimeInterval]
            /\ UNCHANGED dpc
    /\ UNCHANGED <<cfgVars, rtVars, groupID, runCounters, exitClosed, queues,
                   pending, gid, logged, erred, dres, didx, dcur, dshould, dmax, runVars,
                   stopIdx, hbDone, wq, wlast, rd, nrc, mr, conf, ccc, dk>>

\* updateRTStatus returns to consumePayloads
RTReturn(d) ==
    /\ ~Panicked
    /\ dpc[d] = "rtRet"
    /\ Advance(d)
    /\ dshould' = [dshould EXCEPT ![d] = FALSE]
    /\ dmax' = [dmax EXCEPT ![d] = 0]
    /\ got' = [got EXCEPT ![d] = NoneGot]
    /\ UNCHANGED <<cfgVars, rtVars, groupID, runCounters, exitClosed, queues, schedVars,
                   dcur, dsends, dval, runVars, stopIdx, hbDone, wq, wlast, rd, nrc, mr, conf, ccc, dk>>

(***************************************************************************)
(* Collector.run: startup, the wait for shutdown, cleanup.                 *)
(*   runPc: "startFwd", "startDisp", "startSched", "wait" (at <-exit and   *)
(*   wg.Wait), "cleanup", "stopFwd", "done" (returned nil), "err"          *)
(*   (returned an error).                                                  *)
(***************************************************************************)
\* the order of the Start calls
ForwarderOrder == <<"processForwarder", "rtProcessForwarder", "connectionsForwarder",
                    "podForwarder", "eventForwarder">>

\* the forwarders run stops before returning
StoppedOnReturn == {"processForwarder", "rtProcessForwarder", "connectionsForwarder",
                    "podForwarder"}

\* the five Start calls: the first k succeed; run goes on only if all do
RunStartForwarders ==
    /\ ~Panicked
    /\ runPc = "startFwd"
    /\ \E k \in 0..Len(ForwarderOrder) :
         /\ fwd' = [f \in Forwarders |->
                      IF \E j \in 1..k : ForwarderOrder[j] = f THEN "started" ELSE fwd[f]]
         /\ runPc' = IF k = Len(ForwarderOrder) THEN "startDisp" ELSE "err"
    /\ UNCHANGED <<cfgVars, rtVars, groupID, runCounters, exitClosed, queues, schedVars,
                   dispVars, runIdx, cleanups, stopIdx, hbDone, got, wq, wlast, rd, nrc, mr, conf, ccc, dk>>

\* the five `go l.consumePayloads(...)`
RunStartDispatchers ==
    /\ ~Panicked
    /\ runPc = "startDisp"
    /\ dpc' = [d \in QueueNames |-> "poll"]
    /\ runPc' = "startSched"
    /\ runIdx' = 1
    /\ UNCHANGED <<cfgVars, rtVars, groupID, runCounters, exitClosed, queues, schedVars,
                   dres, didx, dcur, dshould, dmax, dsends, dval, fwd, cleanups, stopIdx,
                   hbDone, got, wq, wlast, rd, nrc, mr, conf, ccc, dk>>

\* a variant that starts the runner even when building it gave an error
RunStartScheduler_StartsDespiteError ==
    /\ ~Panicked
    /\ runPc = "startSched"
    /\ IF runIdx <= NumChecks
       THEN \E built \in RunnerBuilds(NameOf(runIdx)) :
              /\ spc' = [spc EXCEPT ![runIdx] = "start"]
              /\ IF built
                 THEN runIdx' = runIdx + 1 /\ UNCHANGED runPc
                 ELSE runPc' = "err" /\ UNCHANGED runIdx
       ELSE /\ runPc' = "wait"
            /\ runIdx' = 0
            /\ UNCHANGED spc
    /\ UNCHANGED <<cfgVars, rtVars, groupID, runCounters, exitClosed, queues, ticker,
                   pending, gid, logged, erred, dispVars, fwd, cleanups, stopIdx, hbDone, got, wq, wlast, rd, nrc, mr, conf, ccc, dk>>

\* one iteration of `for _, c := range l.enabledChecks`: build the runner and
\* start it, or return the error of runnerForCheck
RunStartScheduler ==
    /\ ~Panicked
    /\ runPc = "startSched"
    /\ IF runIdx <= NumChecks
       THEN \E built \in RunnerBuilds(NameOf(runIdx)) :
              IF built
              THEN /\ spc' = [spc EXCEPT ![runIdx] = "start"]
                   /\ runIdx' = runIdx + 1
                   /\ UNCHANGED runPc
              ELSE /\ runPc' = "err"
                   /\ UNCHANGED <<spc, runIdx>>
       ELSE /\ runPc' = "wait"
            /\ runIdx' = 0
            /\ UNCHANGED spc
    /\ UNCHANGED <<cfgVars, rtVars, groupID, runCounters, exitClosed, queues, ticker,
                   pending, gid, logged, erred, dispVars, fwd, cleanups, stopIdx, hbDone, got, wq, wlast, rd, nrc, mr, conf, ccc, dk>>

\* every goroutine added to wg has called Done
AllTasksDone ==
    /\ hbDone
    /\ \A d \in QueueNames : dpc[d] = "done"
    /\ \A i \in Scheds : spc[i] = "done"

\* a variant without wg.Wait(): run goes on as soon as exit is closed
RunWait_NoWgWait ==
    /\ ~Panicked
    /\ runPc = "wait"
    /\ exitClosed
    /\ runPc' = IF NumChecks = 0 THEN "stopFwd" ELSE "cleanup"
    /\ runIdx' = 1
    /\ UNCHANGED <<cfgVars, rtVars, groupID, runCounters, exitClosed, queues, schedVars,
                   dispVars, fwd, cleanups, stopIdx, hbDone, got, wq, wlast, rd, nrc, mr, conf, ccc, dk>>

\* <-exit, then wg.Wait() returns
RunWait ==
    /\ ~Panicked
    /\ runPc = "wait"
    /\ exitClosed
    /\ AllTasksDone
    /\ runPc' = IF NumChecks = 0 THEN "stopFwd" ELSE "cleanup"
    /\ runIdx' = 1
    /\ UNCHANGED <<cfgVars, rtVars, groupID, runCounters, exitClosed, queues, schedVars,
                   dispVars, fwd, cleanups, stopIdx, hbDone, got, wq, wlast, rd, nrc, mr, conf, ccc, dk>>

\* one iteration of the cleanup loop: check.Cleanup()
RunCleanup ==
    /\ ~Panicked
    /\ runPc = "cleanup"
    /\ cleanups' = [cleanups EXCEPT ![runIdx] = @ + 1]
    /\ IF runIdx < NumChecks
       THEN runIdx' = runIdx + 1 /\ UNCHANGED runPc
       ELSE runIdx' = 0 /\ runPc' = "stopFwd"
    /\ UNCHANGED <<cfgVars, rtVars, groupID, runCounters, exitClosed, queues, schedVars,
                   dispVars, fwd, stopIdx, hbDone, got, wq, wlast, rd, nrc, mr, conf, ccc, dk>>

\* the Stop calls of the forwarders, then return nil
RunStopForwarders ==
    /\ ~Panicked
    /\ runPc = "stopFwd"
    /\ fwd' = [f \in Forwarders |-> IF f \in StoppedOnReturn THEN "stopped" ELSE fwd[f]]
    /\ runPc' = "done"
    /\ UNCHANGED <<cfgVars, rtVars, groupID, runCounters, exitClosed, queues, schedVars,
                   dispVars, runIdx, cleanups, stopIdx, hbDone, got, wq, wlast, rd, nrc, mr, conf, ccc, dk>>

(***************************************************************************)
(* The other goroutines of run, and the shutdown signal.                   *)
(***************************************************************************)
\* util.HandleSignals closes exit
CloseExit ==
    /\ ~Panicked
    /\ ~exitClosed
    /\ exitClosed' = TRUE
    /\ UNCHANGED <<cfgVars, rtVars, groupID, runCounters, queues, schedVars, dispVars,
                   runVars, stopIdx, hbDone, got, wq, wlast, rd, nrc, mr, conf, ccc, dk>>

\* a variant of Stop that marks the queue and wakes nobody
WakeBlockedPoll_LeavesBlocked(q) == dpc[q]

\* Stop of queue q as the dispatcher of q sees it: a dispatcher blocked in Poll
\* on the empty queue is woken with ok = false and returns from consumePayloads
WakeBlockedPoll(q) ==
    IF dpc[q] = "poll" /\ queues[q].items = <<>> THEN "done" ELSE dpc[q]

\* the goroutine that stops the five queues after <-exit
StopQueues ==
    /\ ~Panicked
    /\ exitClosed
    /\ stopIdx = 0
    /\ queues' = [q \in QueueNames |-> QStop(queues[q])]
    /\ dpc' = [q \in QueueNames |-> WakeBlockedPoll(q)]
    /\ stopIdx' = Len(QueueOrder)
    /\ UNCHANGED <<cfgVars, rtVars, groupID, runCounters, exitClosed, schedVars,
                   dres, didx, dcur, dshould, dmax, dsends, dval, runVars, hbDone, got, wq, wlast, rd, nrc, mr, conf, ccc, dk>>

\* the heartbeat goroutine: case <-exit
HeartbeatExit ==
    /\ ~Panicked
    /\ exitClosed
    /\ ~hbDone
    /\ hbDone' = TRUE
    /\ UNCHANGED <<cfgVars, rtVars, groupID, runCounters, exitClosed, queues, schedVars,
                   dispVars, runVars, stopIdx, got, wq, wlast, rd, nrc, mr, conf, ccc, dk>>

(***************************************************************************)
(* Initial states and the pipeline specification.                          *)
(***************************************************************************)
\* configurations the collector is started with
Scenarios ==
    {[checks |-> <<ContainerName, RTContainerName>>, rt |-> TRUE, drop |-> {},
      manifest |-> FALSE],
     [checks |-> <<ConnectionsName, ContainerName>>, rt |-> TRUE, drop |-> {},
      manifest |-> FALSE],
     [checks |-> <<ConnectionsName, ContainerName>>, rt |-> TRUE,
      drop |-> {ConnectionsName}, manifest |-> FALSE],
     [checks |-> <<PodCheckName, ProcessDiscoveryName>>, rt |-> TRUE, drop |-> {},
      manifest |-> TRUE],
     [checks |-> <<ProcessDiscoveryName, ContainerName>>, rt |-> TRUE, drop |-> {},
      manifest |-> FALSE],
     [checks |-> <<ProcessEventsName, RTContainerName>>, rt |-> FALSE, drop |-> {},
      manifest |-> FALSE],
     [checks |-> <<UnknownCheckName>>, rt |-> TRUE, drop |-> {}, manifest |-> FALSE]}

CheckNames == {ProcessName, ProcessRTName, ContainerName, RTContainerName,
               ConnectionsName, PodCheckName, ProcessDiscoveryName, ProcessEventsName,
               UnknownCheckName}

\* no call has been made on the stand-alone queue
NoCall == [op |-> "none", ok |-> FALSE, item |-> NoResult, before |-> NewWeightedQueue(0, 0)]

IdleQueue == NewWeightedQueue(1, 1)

\* NewCollectorWithChecks, and run up to the start of the forwarders
InitPipeline(sc) ==
    /\ enabledChecks = sc.checks
    /\ runRealTime = sc.rt
    /\ dropCheckPayloads = sc.drop
    /\ manifestCollection = sc.manifest
    /\ runLimit = MaxRuns
    /\ realTimeEnabled = FALSE
    /\ realTimeInterval = DefaultRTInterval
    /\ groupID = MaxInt32 - 1
    /\ runCounters = [n \in CheckNames |-> 0]
    /\ exitClosed = FALSE
    /\ queues = [q \in QueueNames |-> NewWeightedQueue(QueueSize, QueueBytes)]
    /\ spc = [i \in 1..Len(sc.checks) |-> "idle"]
    /\ ticker = [i \in 1..Len(sc.checks) |-> 0]
    /\ pending = [i \in 1..Len(sc.checks) |-> <<>>]
    /\ gid = [i \in 1..Len(sc.checks) |-> 0]
    /\ logged = [n \in CheckNames |-> {}]
    /\ erred = [i \in 1..Len(sc.checks) |-> FALSE]
    /\ dpc = [d \in QueueNames |-> "idle"]
    /\ dres = [d \in QueueNames |-> NoResult]
    /\ didx = [d \in QueueNames |-> 0]
    /\ dcur = [d \in QueueNames |-> FALSE]
    /\ dshould = [d \in QueueNames |-> FALSE]
    /\ dmax = [d \in QueueNames |-> 0]
    /\ dsends = [d \in QueueNames |-> 0]
    /\ dval = [d \in QueueNames |-> 0]
    /\ runPc = "startFwd"
    /\ runIdx = 0
    /\ stopIdx = 0
    /\ hbDone = FALSE
    /\ fwd = [f \in Forwarders |-> "new"]
    /\ cleanups = [i \in 1..Len(sc.checks) |-> 0]
    /\ got = [d \in QueueNames |-> [i \in 1..Len(sc.checks) |-> 0]]

Init ==
    /\ \E sc \in Scenarios : InitPipeline(sc)
    /\ wq = IdleQueue
    /\ wlast = NoCall
    /\ rd = NoRead
    /\ nrc = NoCounterCalls
    /\ mr = NoConversion
    /\ conf = NoConfig
    /\ ccc = NoCache
    /\ dk = NoCollector

SchedNext ==
    \E i \in Scheds :
        \/ SchedPrime(i)
        \/ SchedTick(i)
        \/ SchedRunError(i)
        \/ SchedRunReturn(i)
        \/ SchedAdd(i)
        \/ SchedExit(i)

DispNext ==
    \E d \in QueueNames :
        \/ DispPoll(d)
        \/ DispSubmit(d)
        \/ DispSubmitError(d)
        \/ DispResponses(d)
        \/ RTStore(d)
        \/ RTCmp(d)
        \/ RTWrite(d)
        \/ RTFallback(d)
        \/ \E i \in Scheds : RTSend(d, i)
        \/ RTReturn(d)

RunNext ==
    \/ RunStartForwarders
    \/ RunStartDispatchers
    \/ RunStartScheduler
    \/ RunWait
    \/ RunCleanup
    \/ RunStopForwarders

Next ==
    \/ SchedNext
    \/ DispNext
    \/ RunNext
    \/ CloseExit
    \/ StopQueues
    \/ HeartbeatExit

Spec == Init /\ [][Next]_vars

(***************************************************************************)
(* The weighted queue on its own: any limits, any sequence of Add, Poll    *)
(* and Stop calls.                                                         *)
(***************************************************************************)
QueueItem(w) == [name |-> "item", payloads |-> <<>>, sizeInBytes |-> w]

pipelineVars == <<cfgVars, rtVars, groupID, runCounters, exitClosed, queues, schedVars,
                  dispVars, runVars, stopIdx, hbDone, got>>

InitQueue ==
    /\ InitPipeline([checks |-> <<ContainerName>>, rt |-> TRUE, drop |-> {},
                     manifest |-> FALSE])
    /\ \E m \in 1..MaxM, w \in 1..MaxW : wq = NewWeightedQueue(m, w)
    /\ wlast = NoCall
    /\ rd = NoRead
    /\ nrc = NoCounterCalls
    /\ mr = NoConversion
    /\ conf = NoConfig
    /\ ccc = NoCache
    /\ dk = NoCollector

\* a call of Add with an item of any weight
WQAdd ==
    /\ QAddReady(wq)
    /\ \E w \in 0..MaxItemWeight :
         /\ wq' = QAdd(wq, QueueItem(w))
         /\ wlast' = [op |-> "add", ok |-> TRUE, item |-> QueueItem(w), before |-> wq]
    /\ UNCHANGED <<pipelineVars, rd, nrc, mr, conf, ccc, dk>>

\* a call of Poll that returns: with the oldest item, or with ok = false
WQPoll ==
    /\ QPollReady(wq)
    /\ IF QPollOk(wq)
       THEN /\ wq' = QPollRest(wq)
            /\ wlast' = [op |-> "poll", ok |-> TRUE, item |-> Head(wq.items), before |-> wq]
       ELSE /\ wq' = wq
            /\ wlast' = [op |-> "poll", ok |-> FALSE, item |-> NoResult, before |-> wq]
    /\ UNCHANGED <<pipelineVars, rd, nrc, mr, conf, ccc, dk>>

\* a call of Stop
WQStop ==
    /\ wq' = QStop(wq)
    /\ wlast' = [op |-> "stop", ok |-> TRUE, item |-> NoResult, before |-> wq]
    /\ UNCHANGED <<pipelineVars, rd, nrc, mr, conf, ccc, dk>>

NextQueue == WQAdd \/ WQPoll \/ WQStop

SpecQueue == InitQueue /\ [][NextQueue]_vars

(***************************************************************************)
(* The pipeline under fair scheduling: every goroutine that can take a     *)
(* step eventually takes one, a check run and a submission eventually      *)
(* return, and a select with a ready case eventually chooses it (Go picks  *)
(* among the ready cases at random, hence strong fairness there).          *)
(***************************************************************************)
Fairness ==
    /\ WF_vars(RunNext)
    /\ WF_vars(StopQueues)
    /\ WF_vars(HeartbeatExit)
    /\ \A i \in {1, 2} :
         /\ WF_vars(SchedPrime(i))
         /\ WF_vars(SchedRunError(i) \/ SchedRunReturn(i))
         /\ WF_vars(SchedAdd(i))
         /\ SF_vars(SchedExit(i))
    /\ \A d \in QueueNames :
         /\ WF_vars(DispPoll(d))
         /\ WF_vars(DispSubmit(d))
         /\ WF_vars(DispSubmitError(d) \/ DispResponses(d))
         /\ WF_vars(RTStore(d))
         /\ WF_vars(RTCmp(d))
         /\ WF_vars(RTWrite(d))
         /\ WF_vars(RTFallback(d))
         /\ WF_vars(RTReturn(d))
         /\ \A i \in {1, 2} : SF_vars(RTSend(d, i))

InitFair ==
    /\ InitPipeline([checks |-> <<ContainerName, RTContainerName>>, rt |-> TRUE,
                     drop |-> {}, manifest |-> FALSE])
    /\ wq = IdleQueue
    /\ wlast = NoCall
    /\ rd = NoRead
    /\ nrc = NoCounterCalls
    /\ mr = NoConversion
    /\ conf = NoConfig
    /\ ccc = NoCache
    /\ dk = NoCollector

FairSpec == InitFair /\ [][Next]_vars /\ Fairness

(***************************************************************************)
(* Properties.                                                             *)
(***************************************************************************)
\* positions of a dispatcher inside updateRTStatus
RTStates == {"rtStore", "rtCmp", "rtWrite", "rtFallback", "rtSend", "rtRet"}

\* scheduler i has entered its runner and has not returned
Running(i) == spc[i] \in {"start", "running", "adding", "waiting"}

\* the broadcast of dispatcher d has been sent in full
BroadcastDone(d) == dpc[d] = "rtRet" /\ \E i \in Scheds : got[d][i] > 0

\* C1: when updateRTStatus has changed the interval and returns, every running
\* scheduler has received the new interval exactly once
C1_EveryRunningSchedulerOnce ==
    \A d \in QueueNames :
        BroadcastDone(d) => \A i \in Scheds : Running(i) => got[d][i] = 1

\* C2: once the exit channel is closed, run eventually returns
C2_ShutdownCompletes == exitClosed ~> (runPc \in {"done", "err"})

\* C3: when no dispatcher is inside updateRTStatus, the ticker of every
\* real-time check has the stored real-time interval as its period
C3_TimersConverge ==
    (\A d \in QueueNames : dpc[d] \notin RTStates)
        => \A i \in Scheds :
              (RealTime(NameOf(i)) /\ ticker[i] # 0) => ticker[i] = realTimeInterval

\* C4: the queue is within both limits, or it holds exactly one item whose own
\* weight exceeds the weight limit
C4_WithinLimitsOrOneOversized ==
    \/ /\ Len(wq.items) <= wq.maxSize
       /\ SumWeights(wq.items) <= wq.maxWeight
    \/ /\ Len(wq.items) = 1
       /\ wq.items[1].sizeInBytes > wq.maxWeight

\* an Add has evicted everything for an item heavier than the weight limit
C4_Witness ==
    /\ Len(wq.items) = 1
    /\ wq.items[1].sizeInBytes > wq.maxWeight
    /\ wq.maxSize > 1

\* C5: a scheduler inside results.Add, in a process that has not panicked, can
\* always complete the Add, whatever the queue holds and whatever its dispatcher
\* is doing, and after the last Add of the run it is back at its select
C5_AddNeverBlocks ==
    \A i \in Scheds :
        (spc[i] = "adding" /\ ~Panicked)
            => ENABLED (SchedAdd(i) /\ (Len(pending[i]) = 1 => spc'[i] = "waiting"))

\* a scheduler is inside Add on a queue that is running and full, with a result
\* left to add
C5_Witness ==
    \E i \in Scheds :
        LET q == resultsQueueForCheck(NameOf(i))
        IN /\ spc[i] = "adding"
           /\ Len(pending[i]) > 0
           /\ ~queues[q].stopped
           /\ Len(queues[q].items) = queues[q].maxSize

\* C6 as stated: when updateRTStatus has decided the flag for its batch, the
\* flag is true exactly when a record of the batch has active clients
C6_EnabledIffActiveClients ==
    [][\A d \in QueueNames :
          (dpc[d] = "rtStore" /\ dpc'[d] = "rtCmp") => (realTimeEnabled' <=> dshould[d])]_vars

\* C6, amended: every call of updateRTStatus has an instant at which the flag
\* is true exactly when a record of its batch has active clients: its Load when
\* the loaded value already agrees with the batch, its Store otherwise
C6_EnabledAtLoadOrStore ==
    [][\A d \in QueueNames :
          /\ (dpc[d] = "submit" /\ dpc'[d] = "rtStore" /\ dcur'[d] = dshould'[d])
                 => (realTimeEnabled' <=> dshould'[d])
          /\ (dpc[d] = "rtStore" /\ dpc'[d] = "rtCmp" /\ dcur[d] # dshould[d])
                 => (realTimeEnabled' <=> dshould[d])]_vars

\* a call of updateRTStatus has loaded an enabled flag for a batch without
\* active clients and is about to store
C6_Witness ==
    \E d \in QueueNames : dpc[d] = "rtStore" /\ dcur[d] /\ ~dshould[d]

\* the interval updateRTStatus is to store for a batch whose maximum is m
ExpectedInterval(m) == IF m > 0 THEN m ELSE DefaultRTInterval

\* C7: when updateRTStatus has dealt with the interval of its batch (the
\* comparison found it stored already, or the assignments are done), the stored
\* interval is the maximum of the batch, or the default when that is not positive
C7_IntervalIsBatchMaximum ==
    [][\A d \in QueueNames :
          ((dpc[d] = "rtCmp" /\ dpc'[d] = "rtRet")
              \/ (dpc[d] = "rtFallback" /\ dpc'[d] # "rtFallback"))
            => realTimeInterval' = ExpectedInterval(dmax[d])]_vars

\* checks whose deliveries must not influence real-time mode
NoRTChecks == {PodCheckName, ProcessDiscoveryName, ProcessEventsName}

\* C8: a step of a dispatcher that handles a result of the pod, process-discovery
\* or process-events check changes neither the flag nor the interval nor any
\* ticker, and does not enter updateRTStatus
C8_NoRealTimeEffect ==
    [][\A d \in QueueNames :
          (dres[d].name \in NoRTChecks /\ <<dpc[d], didx[d], dres[d]>>' # <<dpc[d], didx[d], dres[d]>>)
              => /\ UNCHANGED <<realTimeEnabled, realTimeInterval, ticker>>
                 /\ dpc'[d] \notin RTStates]_vars

\* a dispatcher awaits the responses to a process-discovery payload, whose
\* bodies are decoded
C8_Witness ==
    \E d \in QueueNames : dpc[d] = "submit" /\ dres[d].name = ProcessDiscoveryName

\* C9: no dispatcher is inside a Submit call with a payload of a check named in
\* the drop list
C9_DroppedNeverSubmitted ==
    \A d \in QueueNames : SubmitCall(d) # "" => dres[d].name \notin dropCheckPayloads

\* a result of a check of the drop list has been produced, queued and polled
C9_Witness ==
    \E d \in QueueNames : dpc[d] = "payload" /\ dres[d].name \in dropCheckPayloads

\* C10: Cleanup is called only when every scheduler and dispatcher has returned,
\* at most once per check, and once for every check when run stops the forwarders
C10_CleanupAfterAllTasks ==
    /\ \A i \in Scheds : cleanups[i] <= 1
    /\ (runPc = "cleanup" \/ \E i \in Scheds : cleanups[i] > 0)
          => /\ \A i \in Scheds : spc[i] = "done"
             /\ \A d \in QueueNames : dpc[d] = "done"
    /\ runPc \in {"stopFwd", "done"} => \A i \in Scheds : cleanups[i] = 1

\* run has returned after a shutdown in which every check was cleaned up, one
\* of them after it had run
C10_Witness ==
    /\ runPc = "done"
    /\ \A i \in Scheds : cleanups[i] = 1
    /\ \E i \in Scheds : runCounters[NameOf(i)] > 0

\* C11: when run has returned nil every forwarder that was started is stopped,
\* and no forwarder is stopped before Cleanup has been called for every check
C11_ForwardersStoppedAfterCleanup ==
    /\ runPc = "done" => \A f \in Forwarders : fwd[f] = "stopped"
    /\ (\E f \in Forwarders : fwd[f] = "stopped") => \A i \in Scheds : cleanups[i] = 1

\* C12: a Poll on a stopped queue can always return, and a Poll that was called
\* on a stopped queue returned ok = false and left the queue as it was
C12_PollAfterStopReturnsFalse ==
    /\ wq.stopped => ENABLED WQPoll
    /\ (wlast.op = "poll" /\ wlast.before.stopped)
          => (~wlast.ok /\ wlast.item = NoResult /\ wq = wlast.before)

\* a Poll has returned from a queue that was stopped while it held items
C12_Witness ==
    /\ wlast.op = "poll"
    /\ wlast.before.stopped
    /\ wlast.before.items # <<>>

\* C13: the step that stops the queues releases every dispatcher blocked in
\* Poll on an empty queue, which returns from consumePayloads; and Stop applied
\* to a queue that is stopped gives the same queue
C13_StopReleasesBlockedPoll ==
    [][/\ (stopIdx = 0 /\ stopIdx' # 0)
            => \A d \in QueueNames :
                  /\ queues'[d].stopped
                  /\ (dpc[d] = "poll" /\ ~QPollReady(queues[d])) => dpc'[d] = "done"
       /\ \A q \in QueueNames : queues'[q].stopped => QStop(queues'[q]) = queues'[q]]_vars

\* the queues are stopped after a dispatcher had polled a result (the interval
\* was updated, so the five dispatchers were running when Stop was called), and
\* the dispatcher of eventResults, a queue no enabled check feeds, has returned
C13_Witness ==
    /\ stopIdx # 0
    /\ realTimeInterval # DefaultRTInterval
    /\ \A i \in Scheds : NameOf(i) # ProcessEventsName
    /\ dpc["eventResults"] = "done"

\* C14: an Add on a stopped queue leaves its items, hence its length and its
\* weight, as they were, and no Poll hands out an item of a stopped queue
C14_AddAfterStopIsNoOp ==
    /\ (wlast.op = "add" /\ wlast.before.stopped)
          => /\ wq.items = wlast.before.items
             /\ QLen(wq) = QLen(wlast.before)
             /\ QWeight(wq) = QWeight(wlast.before)
    /\ (wlast.op = "poll" /\ wlast.ok) => ~wlast.before.stopped

\* an item with a weight has been added to a stopped queue that had room for it
C14_Witness ==
    /\ wlast.op = "add"
    /\ wlast.before.stopped
    /\ wlast.item.sizeInBytes > 0
    /\ Fits(wlast.before, wlast.before.items, wlast.item)

\* C15: an Add on a running queue drops the fewest items from the front that
\* make the new item fit (all of them if none does) and appends the new item
\* behind the survivors in their order; a Poll that returns an item returns the
\* oldest and leaves the others in order; with maxItems = 2 and maxWeight = 1000,
\* adding weights 600 and 600 leaves only the second item
C15_EvictsOldestUntilFit ==
    LET old == wlast.before.items
        n == Len(old)
        FitsAfter(k) == Fits(wlast.before, SubSeq(old, k + 1, n), wlast.item)
        dropped == CHOOSE k \in 0..n :
                      /\ k = n \/ FitsAfter(k)
                      /\ \A j \in 0..(k - 1) : ~FitsAfter(j)
        first == [name |-> "first", payloads |-> <<>>, sizeInBytes |-> 600]
        second == [name |-> "second", payloads |-> <<>>, sizeInBytes |-> 600]
    IN /\ (wlast.op = "add" /\ ~wlast.before.stopped)
             => wq.items = Append(SubSeq(old, dropped + 1, n), wlast.item)
       /\ (wlast.op = "poll" /\ wlast.ok)
             => (wlast.item = Head(old) /\ wq.items = Tail(old))
       /\ QAdd(QAdd(NewWeightedQueue(2, 1000), first), second).items = <<second>>

\* an Add has evicted from the front and kept at least one older item
C15_Witness ==
    /\ wlast.op = "add"
    /\ ~wlast.before.stopped
    /\ Len(wq.items) >= 2
    /\ Len(wq.items) <= Len(wlast.before.items)

(***************************************************************************)
(* The schedulers on their own: the runners have been started, the         *)
(* real-time flag is stored and the interval is sent by updateRTStatus at  *)
(* any moment, and more runs of each check are followed.                   *)
(***************************************************************************)
\* runs of one check followed when two schedulers run side by side
MaxSchedRuns == 2
\* runs followed of a check that runs alone
MaxLogRuns == 25

\* the state in which run waits for exit: forwarders and dispatchers started,
\* every runner at its entry
InitRunning(sc, limit) ==
    /\ enabledChecks = sc.checks
    /\ runRealTime = sc.rt
    /\ dropCheckPayloads = sc.drop
    /\ manifestCollection = sc.manifest
    /\ runLimit = limit
    /\ realTimeEnabled = FALSE
    /\ realTimeInterval = DefaultRTInterval
    /\ groupID = MaxInt32 - 1
    /\ runCounters = [n \in CheckNames |-> 0]
    /\ exitClosed = FALSE
    /\ queues = [q \in QueueNames |-> NewWeightedQueue(QueueSize, QueueBytes)]
    /\ spc = [i \in 1..Len(sc.checks) |-> "start"]
    /\ ticker = [i \in 1..Len(sc.checks) |-> 0]
    /\ pending = [i \in 1..Len(sc.checks) |-> <<>>]
    /\ gid = [i \in 1..Len(sc.checks) |-> 0]
    /\ logged = [n \in CheckNames |-> {}]
    /\ erred = [i \in 1..Len(sc.checks) |-> FALSE]
    /\ dpc = [d \in QueueNames |-> "poll"]
    /\ dres = [d \in QueueNames |-> NoResult]
    /\ didx = [d \in QueueNames |-> 0]
    /\ dcur = [d \in QueueNames |-> FALSE]
    /\ dshould = [d \in QueueNames |-> FALSE]
    /\ dmax = [d \in QueueNames |-> 0]
    /\ dsends = [d \in QueueNames |-> 0]
    /\ dval = [d \in QueueNames |-> 0]
    /\ runPc = "wait"
    /\ runIdx = 0
    /\ stopIdx = 0
    /\ hbDone = FALSE
    /\ fwd = [f \in Forwarders |-> "started"]
    /\ cleanups = [i \in 1..Len(sc.checks) |-> 0]
    /\ got = [d \in QueueNames |-> [i \in 1..Len(sc.checks) |-> 0]]
    /\ wq = IdleQueue
    /\ wlast = NoCall
    /\ rd = NoRead
    /\ nrc = NoCounterCalls
    /\ mr = NoConversion
    /\ conf = NoConfig
    /\ ccc = NoCache
    /\ dk = NoCollector

InitSched ==
    \/ \E rt \in BOOLEAN :
         InitRunning([checks |-> <<ContainerName, RTContainerName>>, rt |-> rt,
                      drop |-> {}, manifest |-> FALSE], MaxSchedRuns)
    \/ InitRunning([checks |-> <<ContainerName>>, rt |-> TRUE, drop |-> {},
                    manifest |-> FALSE], MaxLogRuns)

\* updateRTStatus of some dispatcher loads and stores the flag for a batch
\* with or without active clients
UpdateEnabled ==
    /\ ~Panicked
    /\ runRealTime
    /\ \E shouldEnableRT \in BOOLEAN :
         realTimeEnabled' = StoreEnabled(realTimeEnabled, shouldEnableRT, realTimeEnabled)
    /\ UNCHANGED <<cfgVars, realTimeInterval, groupID, runCounters, exitClosed, queues,
                   schedVars, dispVars, runVars, stopIdx, hbDone, got, wq, wlast, rd, nrc, mr, conf, ccc, dk>>

\* updateRTStatus of some dispatcher stores a new interval and scheduler i
\* receives it: case d := <-l.rtIntervalCh
RecvInterval(i) ==
    /\ ~Panicked
    /\ runRealTime
    /\ spc[i] = "waiting"
    /\ \E d \in {5, 10} :
         /\ realTimeInterval' = d
         /\ ticker' = [ticker EXCEPT ![i] = IF TakesInterval(NameOf(i)) THEN d ELSE @]
    /\ UNCHANGED <<cfgVars, realTimeEnabled, groupID, runCounters, exitClosed, queues,
                   spc, pending, gid, logged, erred, dispVars, runVars, stopIdx, hbDone,
                   got, wq, wlast, rd, nrc, mr, conf, ccc, dk>>

NextSched ==
    \/ SchedNext
    \/ UpdateEnabled
    \/ \E i \in Scheds : RecvInterval(i)
    \/ CloseExit

SpecSched == InitSched /\ [][NextSched]_vars

\* C16: a run that starts at the entry of the runner is the first run of a
\* check that is not a real-time check; every other run starts at the select,
\* with the ticker created, and for a check that is not a real-time check after
\* the one priming run; a real-time check goes from the entry to the select
\* without a run; the ticker of a standard check is created after exactly one run
C16_OnePrimingRunBeforeTicks ==
    [][\A i \in Scheds :
          LET n == NameOf(i)
          IN /\ (spc[i] # "running" /\ spc'[i] = "running")
                   => IF spc[i] = "start"
                      THEN ~RealTime(n) /\ runCounters[n] = 0 /\ ticker[i] = 0
                      ELSE /\ spc[i] = "waiting"
                           /\ ticker[i] # 0
                           /\ ~RealTime(n) => runCounters[n] >= 1
             /\ (spc[i] = "start" /\ spc'[i] = "waiting")
                   => (RealTime(n) /\ runCounters'[n] = 0)
             /\ (~RealTime(n) /\ ticker[i] = 0 /\ ticker'[i] # 0)
                   => runCounters[n] = 1]_vars

\* the first timer-driven run of a standard check is in progress while the
\* real-time check beside it, which had no priming run, is in its first run
C16_Witness ==
    \E i, j \in Scheds :
        /\ ~RealTime(NameOf(i))
        /\ spc[i] = "running"
        /\ runCounters[NameOf(i)] = 2
        /\ RealTime(NameOf(j))
        /\ spc[j] = "running"
        /\ runCounters[NameOf(j)] = 1

\* C17: for a scheduler at its select, a tick starts a run and cannot be passed
\* over when the check is a standard check or real-time mode is enabled at the
\* tick, and a tick cannot start a run when the check is a real-time check and
\* real-time mode is not enabled
C17_TickRunsIffStandardOrEnabled ==
    \A i \in Scheds :
        (spc[i] = "waiting" /\ runCounters[NameOf(i)] < runLimit)
            => IF ~RealTime(NameOf(i)) \/ (runRealTime /\ realTimeEnabled)
               THEN /\ ENABLED (SchedTick(i) /\ spc'[i] = "running")
                    /\ ~ENABLED (SchedTick(i) /\ spc'[i] = "waiting")
               ELSE /\ ~ENABLED (SchedTick(i) /\ spc'[i] = "running")
                    /\ ENABLED (SchedTick(i) /\ spc'[i] = "waiting")

\* a real-time check that ran once while real-time mode was enabled waits at
\* its select with real-time mode disabled again
C17_Witness ==
    \E i \in Scheds :
        /\ RealTime(NameOf(i))
        /\ spc[i] = "waiting"
        /\ runCounters[NameOf(i)] = 1
        /\ runRealTime
        /\ ~realTimeEnabled

\* C18: the step in which a check run returns an error adds nothing to any
\* queue, leaves nothing to add and logs nothing, and takes the scheduler back
\* to its select; a scheduler returns only from its select, once exit is
\* closed; and at the select after a failed run a tick still starts a run
C18_CheckErrorSkipsRun ==
    /\ [][\A i \in Scheds :
             /\ (spc[i] = "running" /\ spc'[i] \notin {"running", "adding"} /\ erred'[i])
                   => /\ spc'[i] = "waiting"
                      /\ queues' = queues
                      /\ pending'[i] = <<>>
                      /\ logged' = logged
             /\ (spc[i] # "done" /\ spc'[i] = "done")
                   => (spc[i] = "waiting" /\ exitClosed)]_vars
    /\ [](\A i \in Scheds :
             (/\ erred[i]
              /\ spc[i] = "waiting"
              /\ runCounters[NameOf(i)] < runLimit
              /\ ~RealTime(NameOf(i)) \/ (runRealTime /\ realTimeEnabled))
                 => ENABLED (SchedTick(i) /\ spc'[i] = "running"))

\* a run is in progress on a scheduler whose previous run returned an error
C18_Witness ==
    \E i \in Scheds : erred[i] /\ spc[i] = "running"

C20_GroupIDIncrementsAndIsUnique ==
    /\ [][groupID' # groupID =>
            /\ groupID' = (IF groupID = 2147483647 THEN -2147483647 - 1 ELSE groupID + 1)
            /\ \E i \in Scheds :
                  /\ spc[i] # "running" /\ spc'[i] = "running"
                  /\ gid'[i] = groupID'
                  /\ \A j \in Scheds \ {i} : gid'[j] = gid[j]]_vars
    /\ [](\A i, j \in Scheds :
            (i # j /\ spc[i] \in {"running", "adding"} /\ spc[j] \in {"running", "adding"})
                => gid[i] # gid[j])

\* two schedulers are in a run at the same time, one holding the last value
\* before the overflow and the other the value after the wrap
C20_Witness ==
    \E i, j \in Scheds :
        /\ i # j
        /\ spc[i] \in {"running", "adding"} /\ spc[j] \in {"running", "adding"}
        /\ gid[i] = 2147483647
        /\ gid[j] = -2147483647 - 1
        /\ groupID = -2147483647 - 1

(***************************************************************************)
(* The runner with real time (checks.NewRunnerWithRealTime) of a check     *)
(* that implements CheckWithRealTime, and runCheckWithRealTime.            *)
(*   spc during a run: "runStd" (RunStandard only), "runRT" (RunRealTime   *)
(*   only), "runBoth".                                                     *)
(***************************************************************************)
\* calls of nextGroupID that the model follows when a runner with real time runs
MaxCalls == 3

\* calls of nextGroupID so far: the counter starts at MaxInt32 - 1
GroupIDCalls ==
    IF groupID >= MaxInt32 - 1 THEN groupID - (MaxInt32 - 1) ELSE (groupID + MaxInt32) + 3

DualRunning == {"runStd", "runRT", "runBoth"}

\* position of a run with the given RunOptions
DualPos(runStandard, runRealTime_) ==
    IF runStandard /\ runRealTime_ THEN "runBoth"
    ELSE IF runStandard THEN "runStd" ELSE "runRT"

\* runCheckWithRealTime up to the return of c.RunWithOptions, which is handed
\* nextGroupID and calls it once
BeginDualRun(i, runStandard, runRealTime_) ==
    /\ groupID' = Int32Inc(groupID)
    /\ gid' = [gid EXCEPT ![i] = groupID']
    /\ spc' = [spc EXCEPT ![i] = DualPos(runStandard, runRealTime_)]

\* entry of the runner with real time: the priming run, standard and, when
\* real-time mode is enabled, real time
DualPrime(i) ==
    /\ ~Panicked
    /\ spc[i] = "start"
    /\ runnerForCheck(NameOf(i)) = "withRealTime"
    /\ BeginDualRun(i, TRUE, realTimeEnabled)
    /\ UNCHANGED <<cfgVars, rtVars, runCounters, exitClosed, queues, ticker, pending,
                   logged, erred, dispVars, runVars, stopIdx, hbDone, got, wq, wlast, rd, nrc, mr, conf, ccc, dk>>

\* a tick of the runner with real time: the standard half is due or not, the
\* real-time half runs when RtEnabled() is true; no run when neither is to run
DualTick(i) ==
    /\ ~Panicked
    /\ spc[i] = "waiting"
    /\ runnerForCheck(NameOf(i)) = "withRealTime"
    /\ GroupIDCalls < MaxCalls
    /\ \E runStandard \in {b \in BOOLEAN : b => runCounters[NameOf(i)] < runLimit} :
         IF runStandard \/ realTimeEnabled
         THEN BeginDualRun(i, runStandard, realTimeEnabled)
         ELSE UNCHANGED <<groupID, gid, spc>>
    /\ UNCHANGED <<cfgVars, rtVars, runCounters, exitClosed, queues, ticker, pending,
                   logged, erred, dispVars, runVars, stopIdx, hbDone, got, wq, wlast, rd, nrc, mr, conf, ccc, dk>>

\* a variant that advances the run counter after every run
UpdatesRunCounter_EveryRun(runStandard) == TRUE

\* if options.RunStandard { runCounter := l.nextRunCounter(c.Name()) ... }
UpdatesRunCounter(runStandard) == runStandard

\* c.RunWithOptions returns an error: runCheckWithRealTime returns
DualRunError(i) ==
    /\ ~Panicked
    /\ spc[i] \in DualRunning
    /\ ToWaiting(i)
    /\ erred' = [erred EXCEPT ![i] = TRUE]
    /\ UNCHANGED <<cfgVars, rtVars, groupID, runCounters, exitClosed, queues, pending,
                   logged, dispVars, runVars, stopIdx, hbDone, got, wq, wlast, rd, nrc, mr, conf, ccc, dk>>

\* c.RunWithOptions returns a run: the standard half is queued, the run counter
\* is advanced and the duration logged when RunStandard is set, and the
\* real-time half is built; a half that was not asked for is empty
DualRunReturn(i) ==
    /\ ~Panicked
    /\ spc[i] \in DualRunning
    /\ LET name == NameOf(i)
           runStandard == spc[i] \in {"runStd", "runBoth"}
           runRealTime_ == spc[i] \in {"runRT", "runBoth"}
           q == resultsQueueForCheck(name)
       IN \E standard \in (IF runStandard THEN MessageLists(name) ELSE {<<>>}),
             realTime \in (IF runRealTime_ THEN MessageLists(RealTimeName(name)) ELSE {<<>>}) :
            LET sres == messagesToResults(name, standard)
                rres == messagesToResults(RealTimeName(name), realTime)
            IN /\ queues' = IF sres = <<>> THEN queues
                            ELSE [queues EXCEPT ![q] = QAdd(@, sres[1])]
               /\ runCounters' = IF UpdatesRunCounter(runStandard)
                                 THEN [runCounters EXCEPT ![name] = @ + 1]
                                 ELSE runCounters
               /\ logged' = IF runStandard /\ logCheckDuration(runCounters'[name])
                            THEN [logged EXCEPT ![name] = @ \cup {runCounters'[name]}]
                            ELSE logged
               /\ IF rres = <<>>
                  THEN /\ ToWaiting(i)
                       /\ erred' = [erred EXCEPT ![i] = FALSE]
                       /\ UNCHANGED pending
                  ELSE /\ spc' = [spc EXCEPT ![i] = "adding"]
                       /\ pending' = [pending EXCEPT ![i] = rres]
                       /\ UNCHANGED <<ticker, gid, erred>>
    /\ UNCHANGED <<cfgVars, rtVars, groupID, exitClosed, dispVars, runVars, stopIdx,
                   hbDone, got, wq, wlast, rd, nrc, mr, conf, ccc, dk>>

DualNext ==
    \E i \in Scheds :
        \/ DualPrime(i)
        \/ DualTick(i)
        \/ DualRunError(i)
        \/ DualRunReturn(i)

(***************************************************************************)
(* The pipeline with the process check, whose runner is built by           *)
(* NewRunnerWithRealTime, from the start of run.                           *)
(***************************************************************************)
\* the process check alone, between two checks with every payload dropped, and
\* beside a real-time check when real-time checks are disabled by configuration
StartScenarios ==
    {[checks |-> <<ProcessName>>, rt |-> TRUE, drop |-> {}, manifest |-> FALSE],
     [checks |-> <<ProcessName, RTContainerName>>, rt |-> FALSE, drop |-> {},
      manifest |-> FALSE],
     [checks |-> <<RTContainerName, ProcessName, ContainerName>>, rt |-> TRUE,
      drop |-> {RTContainerName, ProcessName, ProcessRTName, ContainerName},
      manifest |-> FALSE]}

InitStart ==
    /\ \E sc \in StartScenarios : InitPipeline(sc)
    /\ wq = IdleQueue
    /\ wlast = NoCall
    /\ rd = NoRead
    /\ nrc = NoCounterCalls
    /\ mr = NoConversion
    /\ conf = NoConfig
    /\ ccc = NoCache
    /\ dk = NoCollector

NextStart == Next \/ DualNext

SpecStart == InitStart /\ [][NextStart]_vars

\* C21: when run has returned an error because a forwarder did not start, no
\* dispatcher and no scheduler has been started; when it has returned an error
\* because the runner of a check could not be built, that check and every later
\* check have no scheduler; run returns an error only from the Start calls or
\* from the loop that starts the schedulers, and once it has, it starts no
\* scheduler, never waits for shutdown, cleans up no check and stops no forwarder
C21_StartupErrorStartsNothingMore ==
    /\ [](runPc = "err" =>
            IF \E f \in Forwarders : fwd[f] # "started"
            THEN /\ \A d \in QueueNames : dpc[d] = "idle"
                 /\ \A i \in Scheds : spc[i] = "idle"
            ELSE /\ runIdx \in Scheds
                 /\ runnerForCheck(NameOf(runIdx)) = "withRealTime"
                 /\ \A j \in Scheds : j >= runIdx => spc[j] = "idle")
    /\ [][/\ (runPc # "err" /\ runPc' = "err") => runPc \in {"startFwd", "startSched"}
          /\ runPc = "err" =>
                /\ runPc' = "err"
                /\ UNCHANGED <<fwd, cleanups>>
                /\ \A j \in Scheds : spc[j] = "idle" => spc'[j] = "idle"]_vars

\* run has returned the error of building the runner of the second check: the
\* scheduler of the first check is running, the second and the third have none
C21_Witness ==
    /\ runPc = "err"
    /\ \A f \in Forwarders : fwd[f] = "started"
    /\ runIdx = 2
    /\ NumChecks = 3
    /\ spc[1] = "waiting"
    /\ spc[2] = "idle"
    /\ spc[3] = "idle"

\* C22: updateRTStatus goes on to assign the interval and to send it to the
\* schedulers only when the interval of its batch, the default standing in for
\* a maximum that is not positive, differs from the stored interval
C22_SendsOnlyWhenIntervalChanges ==
    [][\A d \in QueueNames :
          (dpc[d] = "rtCmp" /\ dpc'[d] = "rtWrite" /\ NumChecks > 0)
              => ExpectedInterval(dmax[d]) # realTimeInterval]_vars

\* C23: when a scheduler receives an interval update, the scheduler of a
\* real-time check goes on at its select with a ticker of the received period,
\* and the ticker of a standard check keeps the configured check interval
C23_UpdateReplacesRealTimeTimerOnly ==
    [][\A d \in QueueNames : \A i \in Scheds :
          got'[d][i] = got[d][i] + 1
              => IF RealTime(NameOf(i))
                 THEN spc'[i] = "waiting" /\ ticker'[i] = dval[d]
                 ELSE /\ spc'[i] = "waiting"
                      /\ ticker'[i] = ticker[i]
                      /\ ticker[i] = CheckInterval(NameOf(i))]_vars

\* a response that gives no status record: a transport error, a rejected status
\* code, a body that cannot be decoded, or a ResCollector with an error message
C24_Unusable(r) ==
    \/ r.Err
    \/ r.StatusCode >= 300
    \/ r.Body.kind = "undecodable"
    \/ r.Body.kind = "res" /\ r.Body.Message # ""

\* C24: for a dispatcher awaiting the responses to a submission, every stream
\* made of responses without a usable status record can be read to its end, and
\* reading it takes the dispatcher to its next payload or to Poll without
\* entering updateRTStatus: the enabled flag and the stored interval stay as
\* they are and no ticker is touched
C24_NoRecordNoRealTimeChange ==
    \A d \in QueueNames :
        (dpc[d] = "submit" /\ ~Panicked)
            => \A responses \in ResponseLists :
                  (\A k \in 1..Len(responses) : C24_Unusable(responses[k]))
                      => /\ ENABLED DispResponsesWith(d, responses)
                         /\ ~ENABLED (/\ DispResponsesWith(d, responses)
                                      /\ ~(/\ realTimeEnabled' = realTimeEnabled
                                           /\ realTimeInterval' = realTimeInterval
                                           /\ ticker' = ticker
                                           /\ dpc'[d] \in {"payload", "poll"}))

\* a dispatcher awaits the responses to a payload of a check whose deliveries
\* drive real-time mode, while real-time mode is enabled
C24_Witness ==
    \E d \in QueueNames :
        /\ dpc[d] = "submit"
        /\ UpdatesRTStatus(dres[d].name)
        /\ realTimeEnabled
        /\ ~Panicked

(***************************************************************************)
(* readResponseStatuses on its own: any check name, any stream of          *)
(* responses, read one response at a time until the stream is closed.      *)
(***************************************************************************)
InitRead ==
    /\ InitPipeline([checks |-> <<ContainerName>>, rt |-> TRUE, drop |-> {},
                     manifest |-> FALSE])
    /\ wq = IdleQueue
    /\ wlast = NoCall
    /\ nrc = NoCounterCalls
    /\ mr = NoConversion
    /\ conf = NoConfig
    /\ ccc = NoCache
    /\ dk = NoCollector
    /\ \E checkName \in CheckNames, responses \in ResponseLists :
         rd = [checkName |-> checkName, pending |-> responses, seen |-> <<>>,
               statuses |-> <<>>, returned |-> FALSE]

\* a variant of the loop that returns at the first response with an error or
\* a rejected status code
ReadResponse_StopsAtError ==
    /\ ~rd.returned
    /\ rd.pending # <<>>
    /\ LET r == Head(rd.pending)
       IN rd' = [rd EXCEPT !.pending = Tail(@),
                           !.seen = Append(@, r),
                           !.statuses = @ \o ResponseStatus(rd.checkName, r),
                           !.returned = r.Err \/ r.StatusCode >= 300]
    /\ UNCHANGED <<pipelineVars, wq, wlast, nrc, mr, conf, ccc, dk>>

\* one iteration of `for response := range responses`
ReadResponse ==
    /\ ~rd.returned
    /\ rd.pending # <<>>
    /\ LET r == Head(rd.pending)
       IN rd' = [rd EXCEPT !.pending = Tail(@),
                           !.seen = Append(@, r),
                           !.statuses = @ \o ResponseStatus(rd.checkName, r)]
    /\ UNCHANGED <<pipelineVars, wq, wlast, nrc, mr, conf, ccc, dk>>

\* the stream is closed: the loop ends and statuses is returned
ReadClosed ==
    /\ ~rd.returned
    /\ rd.pending = <<>>
    /\ rd' = [rd EXCEPT !.returned = TRUE]
    /\ UNCHANGED <<pipelineVars, wq, wlast, nrc, mr, conf, ccc, dk>>

NextRead == ReadResponse \/ ReadClosed

SpecRead == InitRead /\ [][NextRead]_vars

\* C25: reading a response whose status code is below 200 or at least 300 adds
\* no status record to the batch
C25_Non2xxGivesNoRecord ==
    [][(rd.pending # <<>> /\ rd'.seen = Append(rd.seen, Head(rd.pending)))
          => LET r == Head(rd.pending)
             IN (r.StatusCode < 200 \/ r.StatusCode >= 300)
                   => rd'.statuses = rd.statuses]_vars

\* a response that yields a status record for the check
C26_Usable(checkName, r) ==
    /\ ~r.Err
    /\ r.StatusCode < 300
    /\ checkName \notin {PodCheckName, ProcessEventsName}
    /\ r.Body.kind = "res"
    /\ r.Body.Message = ""

\* C26: reading a response never ends the loop, whatever the response carries:
\* the call returns only in a step of its own, taken when the stream is closed;
\* each response read adds its status record when it is usable and nothing
\* otherwise, leaving the records collected so far in place; and after a
\* response with an error or a rejected status code the loop can still take
\* its next step
C26_ErrorsDoNotStopTheLoop ==
    /\ [][/\ (rd.pending # <<>> /\ rd' # rd)
               => LET r == Head(rd.pending)
                  IN /\ ~rd'.returned
                     /\ rd'.pending = Tail(rd.pending)
                     /\ rd'.statuses = IF C26_Usable(rd.checkName, r)
                                       THEN Append(rd.statuses, r.Body.Status)
                                       ELSE rd.statuses
          /\ (~rd.returned /\ rd'.returned)
               => (rd.pending = <<>> /\ rd'.statuses = rd.statuses)]_vars
    /\ [](~rd.returned => ENABLED (ReadResponse \/ ReadClosed))

\* the call has returned the record of the second response after a first
\* response with a transport error
C26_Witness ==
    /\ rd.returned
    /\ Len(rd.seen) = 2
    /\ rd.seen[1].Err
    /\ rd.statuses = <<rd.seen[2].Body.Status>>

\* the check names consumePayloads has a case for
C27_Recognised == {"process", "rtprocess", "container", "rtcontainer", "connections",
                   "pod", "process_discovery", "process_events"}

\* C27: a dispatcher is never inside a Submit call with a payload of a result
\* whose check name is not recognised; while the process runs it can always
\* take its step on such a payload; and that step leads to the next payload or
\* to Poll, never into updateRTStatus and never out of consumePayloads, and
\* changes neither the enabled flag nor the stored interval nor a ticker
C27_UnknownNameIsSkipped ==
    /\ [](\A d \in QueueNames :
            /\ SubmitCall(d) # "" => dres[d].name \in C27_Recognised
            /\ (dpc[d] = "payload" /\ dres[d].name \notin C27_Recognised /\ ~Panicked)
                  => ENABLED DispSubmit(d))
    /\ [][\A d \in QueueNames :
             (/\ dpc[d] = "payload"
              /\ dres[d].name \notin C27_Recognised
              /\ <<dpc[d], didx[d]>>' # <<dpc[d], didx[d]>>)
                 => /\ dpc'[d] \in {"payload", "poll"}
                    /\ UNCHANGED <<realTimeEnabled, realTimeInterval, ticker>>]_vars

\* a dispatcher has polled a result of a check with an unrecognised name and is
\* at its payload
C27_Witness ==
    \E d \in QueueNames :
        /\ dpc[d] = "payload"
        /\ dres[d].name = UnknownCheckName
        /\ Len(dres[d].payloads) = 1

\* C28: a result reaches a dispatcher only by a Poll of that dispatcher's own
\* queue, which takes the oldest item out of the queue and hands it to no other
\* dispatcher (a result without payloads is taken out and dropped at once); a
\* queue otherwise changes only by an Add of a result a scheduler has just
\* built, never by a result coming back from a dispatcher; a dispatcher
\* gives up its result only after the last payload; it goes through the
\* payloads by increasing index, and enters a Submit call only from the payload
\* it is at, so no payload of a polled result is submitted twice
C28_PolledAndSubmittedAtMostOnce ==
    [][\A q \in QueueNames :
          /\ (dres'[q] # dres[q] /\ dres'[q] # NoResult)
                => /\ dres[q] = NoResult
                   /\ dpc[q] = "poll"
                   /\ queues[q].items # <<>>
                   /\ dres'[q] = Head(queues[q].items)
                   /\ queues'[q].items = Tail(queues[q].items)
                   /\ didx'[q] = 1
                   /\ \A d \in QueueNames \ {q} : dres'[d] = dres[d] /\ queues'[d] = queues[d]
          /\ (queues'[q].items # queues[q].items /\ dpc'[q] = dpc[q] /\ dres'[q] = dres[q])
                => \/ /\ dpc[q] = "poll"
                      /\ queues[q].items # <<>>
                      /\ Head(queues[q].items).payloads = <<>>
                      /\ queues'[q].items = Tail(queues[q].items)
                   \/ \E i \in Scheds : \E k \in 0..Len(queues[q].items) :
                         /\ spc[i] = "adding"
                         /\ dres' = dres
                         /\ queues'[q].items =
                              Append(SubSeq(queues[q].items, k + 1, Len(queues[q].items)),
                                     Head(pending[i]))
          /\ (dres[q] # NoResult /\ dres'[q] # dres[q])
                => (dres'[q] = NoResult /\ didx[q] = Len(dres[q].payloads))
          /\ (dpc[q] # "submit" /\ dpc'[q] = "submit")
                => (dpc[q] = "payload" /\ didx'[q] = didx[q] /\ dres'[q] = dres[q])
          /\ (dpc'[q] = "payload" /\ (dpc[q] # "payload" \/ didx'[q] # didx[q]))
                => didx'[q] = didx[q] + 1]_vars

\* a dispatcher is inside a Submit call with a payload of a result it has
\* polled while the next result waits in its queue
C28_Witness ==
    \E q \in QueueNames :
        /\ dpc[q] = "submit"
        /\ dres[q] # NoResult
        /\ queues[q].items # <<>>

\* C29: while a run of its check is in progress a scheduler can take none of
\* the cases of its select, neither a tick nor an interval update nor the
\* closing of exit, and cannot enter the runner again; the run counter of the
\* check, the group id of the run and the ticker stay as they are until the run
\* has returned; and the run ends at the select of the same scheduler
C29_OneRunAtATime ==
    /\ [](\A i \in Scheds :
            spc[i] \in {"running", "adding"}
                => /\ ~ENABLED SchedPrime(i)
                   /\ ~ENABLED SchedTick(i)
                   /\ ~ENABLED RecvInterval(i)
                   /\ ~ENABLED SchedExit(i)
                   /\ gid[i] # 0)
    /\ [][\A i \in Scheds :
             spc[i] \in {"running", "adding"}
                 => /\ spc'[i] \in {"running", "adding", "waiting"}
                    /\ runCounters'[NameOf(i)] = runCounters[NameOf(i)]
                    /\ spc'[i] \in {"running", "adding"}
                          => (gid'[i] = gid[i] /\ ticker'[i] = ticker[i])]_vars

\* a run of a real-time check is in progress after exit has been closed, and
\* the check has runs left to start
C29_Witness ==
    \E i \in Scheds :
        /\ RealTime(NameOf(i))
        /\ spc[i] = "running"
        /\ ticker[i] # 0
        /\ exitClosed
        /\ runCounters[NameOf(i)] < runLimit

(***************************************************************************)
(* nextRunCounter, step by step: the Load and the Store on l.runCounters   *)
(* are two operations of the sync.Map, and the schedulers of the other     *)
(* checks may run between them.  Each scheduler calls it from runCheck     *)
(* with the name of its own check.  An entry of 0 in runCounters stands    *)
(* for a key that is not in the map.                                       *)
(*   nrc[i]: pc "idle" | "loaded", runCounter the local variable, calls    *)
(*   the calls that have returned, returned the value of the last one.     *)
(***************************************************************************)
\* a variant of Store that replaces the map by one holding this entry alone
SyncMapStore_DropsOtherKeys(m, key, value) ==
    [k \in DOMAIN m |-> IF k = key THEN value ELSE 0]

\* l.runCounters.Store(name, runCounter)
SyncMapStore(m, key, value) == [m EXCEPT ![key] = value]

InitCounters ==
    /\ InitPipeline([checks |-> <<ContainerName, RTContainerName, ConnectionsName>>,
                     rt |-> TRUE, drop |-> {}, manifest |-> FALSE])
    /\ wq = IdleQueue
    /\ wlast = NoCall
    /\ rd = NoRead
    /\ nrc = [i \in Scheds |-> [pc |-> "idle", runCounter |-> 0, calls |-> 0,
                                returned |-> 0]]
    /\ mr = NoConversion
    /\ conf = NoConfig
    /\ ccc = NoCache
    /\ dk = NoCollector

\* runCounter := int32(1); if rc, ok := l.runCounters.Load(name); ok { rc + 1 }
CounterLoad(i) ==
    /\ nrc[i].pc = "idle"
    /\ nrc[i].calls < MaxCalls
    /\ LET rc == runCounters[NameOf(i)]
           ok == rc # 0
       IN nrc' = [nrc EXCEPT ![i].pc = "loaded",
                             ![i].runCounter = IF ok THEN Int32Inc(rc) ELSE 1]
    /\ UNCHANGED <<pipelineVars, wq, wlast, rd, mr, conf, ccc, dk>>

\* l.runCounters.Store(name, runCounter); return runCounter
CounterStore(i) ==
    /\ nrc[i].pc = "loaded"
    /\ runCounters' = SyncMapStore(runCounters, NameOf(i), nrc[i].runCounter)
    /\ nrc' = [nrc EXCEPT ![i].pc = "idle",
                          ![i].calls = @ + 1,
                          ![i].returned = nrc[i].runCounter]
    /\ UNCHANGED <<cfgVars, rtVars, groupID, exitClosed, queues, schedVars, dispVars,
                   runVars, stopIdx, hbDone, got, wq, wlast, rd, mr, conf, ccc, dk>>

NextCounters == \E i \in Scheds : CounterLoad(i) \/ CounterStore(i)

SpecCounters == InitCounters /\ [][NextCounters]_vars

\* C30: the n-th call of nextRunCounter for a check name returns n and leaves n
\* in the map under that name, whatever the schedulers of the other checks do
\* between its Load and its Store; the entry of a name always is the number of
\* calls that have returned for it, and a call changes no entry of another name
C30_NthCallReturnsN ==
    /\ [](\A i \in Scheds : runCounters[NameOf(i)] = nrc[i].calls)
    /\ [][\A i \in Scheds :
             nrc'[i].calls # nrc[i].calls
                 => /\ nrc'[i].calls = nrc[i].calls + 1
                    /\ nrc'[i].returned = nrc'[i].calls
                    /\ runCounters'[NameOf(i)] = nrc'[i].calls
                    /\ \A n \in CheckNames \ {NameOf(i)} :
                          runCounters'[n] = runCounters[n]]_vars

\* a call for one name is between its Load and its Store after calls for that
\* name and for another name have returned, while a call for a third name is
\* between its Load and its Store as well
C30_Witness ==
    \E i, j, k \in Scheds :
        /\ i # j /\ j # k /\ i # k
        /\ nrc[i].pc = "loaded" /\ nrc[i].calls >= 1
        /\ nrc[j].pc = "loaded"
        /\ nrc[k].calls >= 2

\* C31: for a check run by runCheckWithRealTime, a run with RunStandard false
\* leaves its run counter as it is, a run with RunStandard true that returns
\* without error advances it by exactly one, no other step of its scheduler
\* changes it, and the counter of its real-time name is never changed
C31_OnlyStandardHalfCounts ==
    [][\A i \in Scheds :
         runnerForCheck(NameOf(i)) = "withRealTime"
             => LET name == NameOf(i)
                    returned == spc[i] \in DualRunning /\ spc'[i] \notin DualRunning
                    success == spc'[i] = "adding" \/ (spc'[i] = "waiting" /\ ~erred'[i])
                IN /\ runCounters'[RealTimeName(name)] = runCounters[RealTimeName(name)]
                   /\ (spc[i] = "runRT") => runCounters'[name] = runCounters[name]
                   /\ (spc[i] \in {"runStd", "runBoth"} /\ returned /\ success)
                         => runCounters'[name] = runCounters[name] + 1
                   /\ (runCounters'[name] # runCounters[name])
                         => (spc[i] \in {"runStd", "runBoth"} /\ returned /\ success)]_vars

\* the second run of a check that runs alone, a run with RunStandard false, has
\* returned its real-time half, which is being queued, after the first run, with
\* RunStandard true, returned without error and was counted
C31_Witness ==
    \E i \in Scheds :
        /\ runnerForCheck(NameOf(i)) = "withRealTime"
        /\ spc[i] = "adding"
        /\ pending[i] # <<>>
        /\ NumChecks = 1
        /\ GroupIDCalls = 2
        /\ ~erred[i]
        /\ runCounters[NameOf(i)] = 1
        /\ runLimit = 1

\* C32: resultsQueueForCheck gives the pod queue for the pod check, the
\* real-time queue for the real-time process and real-time container names, the
\* connections queue for connections, the event queue for process events and
\* the main process queue for every other name, unrecognised ones included; and
\* when a scheduler queues a result, no queue but that one is changed and that
\* one, unless it was stopped, holds the result as its newest item
C32_QueueForEachName ==
    /\ [](\A name \in CheckNames :
            resultsQueueForCheck(name) =
                IF name = PodCheckName THEN "podResults"
                ELSE IF name = ProcessRTName \/ name = RTContainerName
                     THEN "rtProcessResults"
                ELSE IF name = ConnectionsName THEN "connectionsResults"
                ELSE IF name = ProcessEventsName THEN "eventResults"
                ELSE "processResults")
    /\ [][\A i \in Scheds :
             (spc[i] = "adding" /\ spc'[i] # "adding" /\ pending[i] # <<>>)
                 => LET name == Head(pending[i]).name
                        expected ==
                            IF name = PodCheckName THEN "podResults"
                            ELSE IF name = ProcessRTName \/ name = RTContainerName
                                 THEN "rtProcessResults"
                            ELSE IF name = ConnectionsName THEN "connectionsResults"
                            ELSE IF name = ProcessEventsName THEN "eventResults"
                            ELSE "processResults"
                    IN /\ \A q \in QueueNames \ {expected} : queues'[q] = queues[q]
                       /\ ~queues[expected].stopped
                             => /\ queues'[expected].items # <<>>
                                /\ queues'[expected].items[Len(queues'[expected].items)]
                                      = Head(pending[i])]_vars

\* the result of a check with an unrecognised name is in the main process queue
C32_Witness ==
    /\ queues["processResults"].items # <<>>
    /\ Head(queues["processResults"].items).name = UnknownCheckName

(***************************************************************************)
(* messagesToResults on the outputs of a check, longer than the pipeline   *)
(* above follows: up to MaxEncMsgs messages with bodies of up to           *)
(* MaxEncBody bytes, each of which may fail to encode.                     *)
(***************************************************************************)
MaxEncMsgs == 3
MaxEncBody == 3

\* a message: whether EncodePayload succeeds, and the length of the body
EncMessages ==
    {[enc |-> FALSE, size |-> 0, manifest |-> FALSE]}
    \cup {[enc |-> TRUE, size |-> n, manifest |-> FALSE] : n \in 1..MaxEncBody}

EncMessageLists == UNION {[1..n -> EncMessages] : n \in 0..MaxEncMsgs}

\* the output of a standard check or of the process events check
InitEncode ==
    /\ InitPipeline([checks |-> <<ContainerName>>, rt |-> TRUE, drop |-> {},
                     manifest |-> FALSE])
    /\ wq = IdleQueue
    /\ wlast = NoCall
    /\ rd = NoRead
    /\ nrc = NoCounterCalls
    /\ \E name \in {ContainerName, ProcessEventsName}, messages \in EncMessageLists :
         mr = [name |-> name, messages |-> messages, results |-> <<>>,
               returned |-> FALSE]
    /\ conf = NoConfig
    /\ ccc = NoCache
    /\ dk = NoCollector

\* l.messagesToResults(start, name, messages, results)
ConvertMessages ==
    /\ ~mr.returned
    /\ LET added == messagesToResults(mr.name, mr.messages)
           q == resultsQueueForCheck(mr.name)
       IN /\ mr' = [mr EXCEPT !.results = added, !.returned = TRUE]
          /\ queues' = IF added = <<>> THEN queues
                        ELSE [queues EXCEPT ![q] = QAdd(@, added[1])]
    /\ UNCHANGED <<cfgVars, rtVars, groupID, runCounters, exitClosed, schedVars, dispVars,
                   runVars, stopIdx, hbDone, got, wq, wlast, rd, nrc, conf, ccc, dk>>

SpecEncode == InitEncode /\ [][ConvertMessages]_vars

\* the positions of the messages that encode, in increasing order
RECURSIVE C33_Encoded(_, _)
C33_Encoded(messages, from) ==
    IF from > Len(messages) THEN <<>>
    ELSE (IF messages[from].enc THEN <<from>> ELSE <<>>)
         \o C33_Encoded(messages, from + 1)

\* C33: the result that messagesToResults queues for a non-empty output holds
\* exactly one payload for each message that encodes, in the order of the
\* messages, each with the body of its message; a message that fails to encode
\* takes away its own payload and no other
C33_OnlyFailedMessageOmitted ==
    (mr.returned /\ mr.messages # <<>>)
        => /\ Len(mr.results) = 1
           /\ mr.results[1].name = mr.name
           /\ LET kept == C33_Encoded(mr.messages, 1)
                  payloads == mr.results[1].payloads
              IN /\ Len(payloads) = Len(kept)
                 /\ \A k \in 1..Len(kept) : payloads[k].size = mr.messages[kept[k]].size

\* an output whose second message fails to encode between two messages of
\* different lengths has been converted
C33_Witness ==
    /\ mr.returned
    /\ Len(mr.messages) = 3
    /\ mr.messages[1].enc /\ ~mr.messages[2].enc /\ mr.messages[3].enc
    /\ mr.messages[1].size > mr.messages[3].size
    /\ Len(mr.results) = 1

\* C34: every result in a queue weighs the sum of the body lengths of its
\* payloads, and a call of messagesToResults with no messages queues nothing,
\* while a call with messages queues its one result
C34_WeightIsSumOfBodyLengths ==
    /\ \A q \in QueueNames : \A k \in 1..Len(queues[q].items) :
          LET item == queues[q].items[k]
              n == Len(item.payloads)
              upTo[j \in 0..n] == IF j = 0 THEN 0 ELSE upTo[j - 1] + item.payloads[j].size
          IN /\ Weight(item) = upTo[n]
             /\ item.sizeInBytes = upTo[n]
    /\ (mr.returned /\ mr.messages = <<>>)
          => (mr.results = <<>> /\ \A q \in QueueNames : queues[q].items = <<>>)
    /\ (mr.returned /\ mr.messages # <<>>)
          => queues[resultsQueueForCheck(mr.name)].items = mr.results

\* a result with two payloads of different lengths, from an output of three
\* messages, is in the event queue
C34_Witness ==
    /\ mr.returned
    /\ Len(mr.messages) = 3
    /\ queues["eventResults"].items # <<>>
    /\ LET item == Head(queues["eventResults"].items)
       IN /\ Len(item.payloads) = 2
          /\ item.payloads[1].size # item.payloads[2].size
          /\ item.sizeInBytes = 5

\* C35: when real-time checks are disabled by configuration, whatever the
\* backend answers, the enabled flag stays false, the stored interval keeps its
\* initial value, no dispatcher enters updateRTStatus or sends an interval
\* update, no scheduler receives one, no real-time check runs or queues a
\* result, and the process check is run by the basic runner, without its
\* real-time half
C35_DisabledRealTimeStaysOff ==
    ~runRealTime
        => /\ ~realTimeEnabled
           /\ realTimeInterval = DefaultRTInterval
           /\ \A d \in QueueNames :
                 /\ dpc[d] \notin {"rtStore", "rtCmp", "rtWrite", "rtFallback", "rtSend",
                                   "rtRet"}
                 /\ dsends[d] = 0
                 /\ \A i \in Scheds : got[d][i] = 0
                 /\ \A k \in 1..Len(queues[d].items) :
                       ~RealTime(queues[d].items[k].name)
                 /\ ~RealTime(dres[d].name)
           /\ \A i \in Scheds :
                 /\ spc[i] \notin DualRunning
                 /\ RealTime(NameOf(i))
                       => /\ spc[i] \notin {"running", "adding"}
                          /\ runCounters[NameOf(i)] = 0
                          /\ ticker[i] \in {0, CheckInterval(NameOf(i))}
           /\ runCounters[ProcessRTName] = 0

\* with real-time checks disabled, a payload of the process check has been
\* submitted and its answers are about to be read, while the scheduler of a
\* real-time check waits at its select with its ticker running
C35_Witness ==
    /\ ~runRealTime
    /\ dpc["processResults"] = "submit"
    /\ dres["processResults"].name = ProcessName
    /\ \E i \in Scheds :
          RealTime(NameOf(i)) /\ spc[i] = "waiting" /\ ticker[i] # 0

\* C36 as stated: when run has returned an error from its startup, no
\* dispatcher and no scheduler is running, the heartbeat goroutine has returned
\* and no forwarder is left started
C36_AbortLeavesNothingRunning ==
    runPc = "err"
        => /\ \A d \in QueueNames : dpc[d] \in {"idle", "done"}
           /\ \A i \in Scheds : spc[i] \in {"idle", "done"}
           /\ hbDone
           /\ \A f \in Forwarders : fwd[f] # "started"

(***************************************************************************)
(* The queues NewCollectorWithChecks builds from the configured limits.    *)
(* The defaults of ddconfig and the loading of cfg.Orchestrator are not    *)
(* part of the sources: the loader keeps its default for the pod queue     *)
(* when the configured value is not positive.                              *)
(***************************************************************************)
DefaultProcessQueueSize == 256
DefaultProcessRTQueueSize == 5
DefaultProcessQueueBytes == 60000000
DefaultPodQueueBytes == 15000000

\* the largest configured limit followed; the smallest is -1
MaxConfigured == 2

\* cfg.Orchestrator.PodQueueBytes as loaded from the configured value
PodQueueBytes(configured) ==
    IF configured > 0 THEN configured ELSE DefaultPodQueueBytes

\* a variant that takes a configured limit as it is
ValidLimit_AsConfigured(configured, default) == configured

\* if limit <= 0 { limit = default }
ValidLimit(configured, default) == IF configured <= 0 THEN default ELSE configured

\* the five api.NewWeightedQueue calls
NewCollectorQueues(c) ==
    LET queueSize == ValidLimit(c.queueSize, DefaultProcessQueueSize)
        rtQueueSize == ValidLimit(c.rtQueueSize, DefaultProcessRTQueueSize)
        queueBytes == ValidLimit(c.queueBytes, DefaultProcessQueueBytes)
    IN [q \in QueueNames |->
          CASE q = "processResults" -> NewWeightedQueue(queueSize, queueBytes)
            [] q = "rtProcessResults" -> NewWeightedQueue(rtQueueSize, queueBytes)
            [] q = "connectionsResults" -> NewWeightedQueue(queueSize, queueBytes)
            [] q = "podResults" -> NewWeightedQueue(queueSize, PodQueueBytes(c.podQueueBytes))
            [] OTHER -> NewWeightedQueue(queueSize, queueBytes)]

\* the configuration before the Collector is built
InitConfig ==
    /\ InitPipeline([checks |-> <<ContainerName>>, rt |-> TRUE, drop |-> {},
                     manifest |-> FALSE])
    /\ wq = IdleQueue
    /\ wlast = NoCall
    /\ rd = NoRead
    /\ nrc = NoCounterCalls
    /\ mr = NoConversion
    /\ \E a, b, c, d \in -1..MaxConfigured :
          conf = [queueSize |-> a, rtQueueSize |-> b, queueBytes |-> c,
                  podQueueBytes |-> d, built |-> FALSE]
    /\ ccc = NoCache
    /\ dk = NoCollector

\* NewCollectorWithChecks, as far as the queues go
NewCollectorWithChecks ==
    /\ ~conf.built
    /\ queues' = NewCollectorQueues(conf)
    /\ conf' = [conf EXCEPT !.built = TRUE]
    /\ UNCHANGED <<cfgVars, rtVars, groupID, runCounters, exitClosed, schedVars, dispVars,
                   runVars, stopIdx, hbDone, got, wq, wlast, rd, nrc, mr, ccc, dk>>

SpecConfig == InitConfig /\ [][NewCollectorWithChecks]_vars

MaxReads == 3

CacheCallers == {1, 2}
CacheProcs == {0} \cup CacheCallers
AppGUIDs == {"a", "b"}

\* what one round of API calls gives: whether every list call succeeded, and
\* the applications in the cfApplicationsByGUID map built from it
ApiOutcomes ==
    {[ok |-> FALSE, apps |-> {}], [ok |-> FALSE, apps |-> {"a"}],
     [ok |-> TRUE, apps |-> {}], [ok |-> TRUE, apps |-> {"a"}]}

\* the state ConfigureGlobalCCCache leaves, before start has run
InitCache ==
    /\ InitPipeline([checks |-> <<ContainerName>>, rt |-> TRUE, drop |-> {},
                     manifest |-> FALSE])
    /\ wq = IdleQueue
    /\ wlast = NoCall
    /\ rd = NoRead
    /\ nrc = NoCounterCalls
    /\ mr = NoConversion
    /\ conf = NoConfig
    /\ dk = NoCollector
    /\ \E refreshCacheOnMiss \in BOOLEAN :
         ccc = [refreshCacheOnMiss |-> refreshCacheOnMiss,
                lastUpdated |-> 0,
                updatedOnce |-> 1,
                now |-> 1,
                closes |-> 0,
                okUpdates |-> 0,
                apps |-> {},
                canceled |-> FALSE,
                reads |-> 0,
                handed |-> {},
                pc |-> [p \in CacheProcs |-> IF p = 0 THEN "start" ELSE "idle"],
                sawZero |-> [p \in CacheProcs |-> FALSE],
                guid |-> [c \in CacheCallers |-> "a"],
                res |-> [c \in CacheCallers |-> "none"]]

\* entry of readData: the API calls are made without the lock
BeginReadData(p, c0) ==
    [c0 EXCEPT !.pc[p] = "reading",
               !.reads = @ + 1,
               !.sawZero[p] = (c0.lastUpdated = 0)]

\* start: the first readData
CacheLoopStart ==
    /\ ccc # NoCache
    /\ ccc.pc[0] = "start"
    /\ ccc' = BeginReadData(0, ccc)
    /\ UNCHANGED <<pipelineVars, wq, wlast, rd, nrc, mr, conf, dk>>

\* start: case <-dataRefreshTicker.C
CacheLoopTick ==
    /\ ccc # NoCache
    /\ ccc.pc[0] = "wait"
    /\ ccc.reads < MaxReads
    /\ ccc' = BeginReadData(0, ccc)
    /\ UNCHANGED <<pipelineVars, wq, wlast, rd, nrc, mr, conf, dk>>

\* the context of the cache is cancelled
CacheCancel ==
    /\ ccc # NoCache
    /\ ~ccc.canceled
    /\ ccc' = [ccc EXCEPT !.canceled = TRUE]
    /\ UNCHANGED <<pipelineVars, wq, wlast, rd, nrc, mr, conf, dk>>

\* start: case <-ccc.cancelContext.Done()
CacheLoopExit ==
    /\ ccc # NoCache
    /\ ccc.pc[0] = "wait"
    /\ ccc.canceled
    /\ ccc' = [ccc EXCEPT !.pc[0] = "done"]
    /\ UNCHANGED <<pipelineVars, wq, wlast, rd, nrc, mr, conf, dk>>

\* a variant that decides on the first update when readData is entered
FirstUpdate_OnEntry(p) == ccc.sawZero[p]

\* firstUpdate := ccc.lastUpdated.IsZero(), under the lock
FirstUpdate(p) == ccc.lastUpdated = 0

\* readData from ccc.Lock() to the deferred Unlock: the maps are replaced by
\* what the API calls gave, failed or not; lastUpdated is set; the channel is
\* closed on the first update
ReadDataCommit(p) ==
    /\ ccc # NoCache
    /\ ccc.pc[p] = "reading"
    /\ \E outcome \in ApiOutcomes :
         ccc' = [ccc EXCEPT !.apps = outcome.apps,
                            !.lastUpdated = ccc.now,
                            !.now = @ + 1,
                            !.closes = IF FirstUpdate(p) THEN @ + 1 ELSE @,
                            !.okUpdates = IF outcome.ok THEN @ + 1 ELSE @,
                            !.pc[p] = IF p = 0 THEN "wait" ELSE "recheck"]
    /\ UNCHANGED <<pipelineVars, wq, wlast, rd, nrc, mr, conf, dk>>

\* GetCFApplication up to the first lookup: a hit, an error, or readData
GetCFApplication(c, guid) ==
    /\ ccc # NoCache
    /\ ccc.pc[c] = "idle"
    /\ IF guid \in ccc.apps
       THEN ccc' = [ccc EXCEPT !.guid[c] = guid, !.res[c] = "found"]
       ELSE IF ~ccc.refreshCacheOnMiss
       THEN ccc' = [ccc EXCEPT !.guid[c] = guid, !.res[c] = "error"]
       ELSE /\ ccc.reads < MaxReads
            /\ ccc' = [BeginReadData(c, ccc) EXCEPT !.guid[c] = guid, !.res[c] = "none"]
    /\ UNCHANGED <<pipelineVars, wq, wlast, rd, nrc, mr, conf, dk>>

\* GetCFApplication after readData: the second lookup
GetCFApplicationAgain(c) ==
    /\ ccc # NoCache
    /\ ccc.pc[c] = "recheck"
    /\ ccc' = [ccc EXCEPT !.pc[c] = "idle",
                          !.res[c] = IF ccc.guid[c] \in ccc.apps THEN "found" ELSE "error"]
    /\ UNCHANGED <<pipelineVars, wq, wlast, rd, nrc, mr, conf, dk>>

\* UpdatedOnce: the channel in the field is returned
UpdatedOnce ==
    /\ ccc # NoCache
    /\ ccc' = [ccc EXCEPT !.handed = @ \cup {ccc.updatedOnce}]
    /\ UNCHANGED <<pipelineVars, wq, wlast, rd, nrc, mr, conf, dk>>

NextCache ==
    \/ CacheLoopStart
    \/ CacheLoopTick
    \/ CacheCancel
    \/ CacheLoopExit
    \/ \E p \in CacheProcs : ReadDataCommit(p)
    \/ \E c \in CacheCallers, guid \in AppGUIDs : GetCFApplication(c, guid)
    \/ \E c \in CacheCallers : GetCFApplicationAgain(c)
    \/ UpdatedOnce

SpecCache == InitCache /\ [][NextCache]_vars

\* C38 as stated: the channel of UpdatedOnce is closed only when a refresh has
\* updated the cache from API calls that succeeded, and every call of
\* UpdatedOnce returns the same channel
C38_ClosedOnlyAfterSuccessfulUpdate ==
    /\ ccc.closes >= 1 => ccc.okUpdates >= 1
    /\ Cardinality(ccc.handed) <= 1

\* C39: under every interleaving of the refresh loop and of the callers that
\* refresh on a miss, close is called on updatedOnce at most once, and once
\* lastUpdated has left the zero time it never is the zero time again
C39_ClosedAtMostOnce ==
    /\ [](ccc.closes <= 1)
    /\ [](ccc.closes = 1 <=> ccc.lastUpdated # 0)
    /\ [][ccc.lastUpdated # 0 => ccc'.lastUpdated # 0]_vars

\* the refresh loop and two callers entered readData while lastUpdated was the
\* zero time, all three have committed, and the channel has been closed once
C39_Witness ==
    /\ \A p \in CacheProcs : ccc.sawZero[p] /\ ccc.pc[p] # "reading"
    /\ ccc.reads = 3
    /\ ccc.lastUpdated = 3
    /\ ccc.closes = 1

(***************************************************************************)
(* The docker workloadmeta collector: Start, stream and handleEvent, and   *)
(* the subscribers of dockerUtil, which are kept by name.  The dockerUtil  *)
(* is not part of the sources: Subscribe registers a name, Unsubscribe     *)
(* removes a registered name and returns an error for any other.           *)
(*   pc: "new", "streaming", "failed" (Start returned an error),           *)
(*   "stopped" (stream returned, by "err" or by "ctx").                    *)
(***************************************************************************)
componentName == "workloadmeta-docker"

\* the name stream hands to UnsubscribeFromContainerEvents
UnsubscribeName == "DockerCollector"

\* container events that are followed
MaxEvents == 2

ContainerIDs == {"c1", "c2"}

\* dockerUtil.SubscribeToContainerEvents(name, filter)
Subscribe(subs, name) == subs \cup {name}

\* dockerUtil.UnsubscribeFromContainerEvents(name)
Unsubscribe(subs, name) ==
    [subs |-> subs \ {name}, err |-> name \notin subs]

\* before Start: other components may hold subscriptions of their own
InitDocker ==
    /\ InitPipeline([checks |-> <<ContainerName>>, rt |-> TRUE, drop |-> {},
                     manifest |-> FALSE])
    /\ wq = IdleQueue
    /\ wlast = NoCall
    /\ rd = NoRead
    /\ nrc = NoCounterCalls
    /\ mr = NoConversion
    /\ conf = NoConfig
    /\ ccc = NoCache
    /\ \E others \in SUBSET {UnsubscribeName, "other"} :
         dk = [pc |-> "new", subs |-> others, subscribedAs |-> "", unsubscribedAs |-> "",
               unsubscribeErr |-> FALSE, stoppedBy |-> "none", ctxDone |-> FALSE,
               health |-> FALSE, store |-> {}, events |-> 0]

\* Start: it returns an error when docker is not present, when there is no
\* dockerUtil, when subscribing fails or when the containers cannot be listed;
\* else the running containers are notified and stream is started
DockerStart ==
    /\ dk # NoCollector
    /\ dk.pc = "new"
    /\ \E outcome \in {"disabled", "noDockerUtil", "subscribeError", "listError", "ok"},
          running \in SUBSET ContainerIDs :
         dk' = CASE outcome = "ok" ->
                      [dk EXCEPT !.pc = "streaming",
                                 !.subs = Subscribe(@, componentName),
                                 !.subscribedAs = componentName,
                                 !.store = running,
                                 !.health = TRUE]
                 [] outcome = "listError" ->
                      [dk EXCEPT !.pc = "failed",
                                 !.subs = Subscribe(@, componentName),
                                 !.subscribedAs = componentName]
                 [] OTHER -> [dk EXCEPT !.pc = "failed"]
    /\ UNCHANGED <<pipelineVars, wq, wlast, rd, nrc, mr, conf, ccc>>

\* stream, case ev := <-c.eventCh: a start event of a container that can be
\* inspected sets it in the store, a die event unsets it, an event that cannot
\* be built is logged
DockerEvent ==
    /\ dk # NoCollector
    /\ dk.pc = "streaming"
    /\ dk.events < MaxEvents
    /\ \E id \in ContainerIDs, action \in {"start", "die"}, inspected \in BOOLEAN :
         dk' = [dk EXCEPT !.events = @ + 1,
                          !.store = IF action = "die" THEN @ \ {id}
                                    ELSE IF inspected THEN @ \cup {id} ELSE @]
    /\ UNCHANGED <<pipelineVars, wq, wlast, rd, nrc, mr, conf, ccc>>

\* the context handed to Start is done
DockerCtxDone ==
    /\ dk # NoCollector
    /\ ~dk.ctxDone
    /\ dk' = [dk EXCEPT !.ctxDone = TRUE]
    /\ UNCHANGED <<pipelineVars, wq, wlast, rd, nrc, mr, conf, ccc>>

\* stream, case err := <-c.errCh: cancel and return
DockerStreamErr ==
    /\ dk # NoCollector
    /\ dk.pc = "streaming"
    /\ dk' = [dk EXCEPT !.pc = "stopped", !.stoppedBy = "err"]
    /\ UNCHANGED <<pipelineVars, wq, wlast, rd, nrc, mr, conf, ccc>>

\* stream, case <-ctx.Done(): unsubscribe, deregister the health check, return
DockerStreamDone ==
    /\ dk # NoCollector
    /\ dk.pc = "streaming"
    /\ dk.ctxDone
    /\ LET u == Unsubscribe(dk.subs, UnsubscribeName)
       IN dk' = [dk EXCEPT !.pc = "stopped",
                           !.stoppedBy = "ctx",
                           !.subs = u.subs,
                           !.unsubscribedAs = UnsubscribeName,
                           !.unsubscribeErr = u.err,
                           !.health = FALSE]
    /\ UNCHANGED <<pipelineVars, wq, wlast, rd, nrc, mr, conf, ccc>>

NextDocker ==
    \/ DockerStart
    \/ DockerEvent
    \/ DockerCtxDone
    \/ DockerStreamErr
    \/ DockerStreamDone

SpecDocker == InitDocker /\ [][NextDocker]_vars

\* C40 as stated: when stream has returned because its context is done, the
\* subscription that Start registered is gone, and the name handed to
\* Unsubscribe is the name Start subscribed with
C40_UnsubscribesItsOwnSubscription ==
    (dk.pc = "stopped" /\ dk.stoppedBy = "ctx")
        => /\ dk.subscribedAs \notin dk.subs
           /\ dk.unsubscribedAs = dk.subscribedAs

====
